---------------------------- MODULE Spec2Model ----------------------------
(***************************************************************************)
(* State-machine model of the openGA genetic algorithm engine              *)
(* (EA::Genetic in openGA.hpp): settings validation, generation 0,         *)
(* the generational loop with cooperative cancellation, single-objective   *)
(* ranking and selection, and the stop-condition state machine.            *)
(*                                                                         *)
(* Conventions                                                             *)
(*  - chromosome indices, sorted_indices, fronts and parent positions are   *)
(*    0-based as in the source; TLA+ sequences are 1-based, so chromosome   *)
(*    i is g.chromosomes[i + 1].                                            *)
(*  - doubles that are sums of 1/sqrt(rank + 1) or averages are kept in     *)
(*    fixed point with Scale units per 1.0.                                 *)
(*  - user callbacks are opaque: init_genes, crossover and mutate return    *)
(*    any gene of Genes, eval_solution returns TRUE or FALSE.               *)
(***************************************************************************)
EXTENDS Integers, Sequences, FiniteSets, TLC

(***************************************************************************)
(* Bounds of the model                                                     *)
(***************************************************************************)
MaxPop == 2
MaxGene == 1
MaxGenerationMax == 4
MaxStall == 2
MaxSeeds == 1
\* direct calls: chromosomes and costs handed to the single-objective
\* ranking, chromosomes and objective values handed to the multi-objective
\* ranking, dept and N_division handed to generate_referenceVectors
MaxRanked == 4
MaxCost == 2
MaxFronted == 3
MaxObjective == 2
MaxDept == 3
MaxDivision == 4
\* direct calls of the automatic sizing: population
MaxAutoPop == 6
\* the thread actions step by step: population
MaxSlots == 3
\* Matrix: rows, columns and the length of argument vectors; element values
MaxDim == 2
MaxElement == 1

(***************************************************************************)
(* Fixed-point units                                                       *)
(***************************************************************************)
Scale == 10000
\* 1 / sqrt(rank + 1) in units of 1 / Scale, rank = 0, 1, 2, ...
WeightTable ==
  <<10000, 7071, 5773, 5000, 4472, 4082, 3779, 3535, 3333, 3162, 3015, 2886,
    2773, 2672, 2581, 2500>>
Weight(rank) == WeightTable[rank + 1]

\* tol_stall_average(1e-4), in units of 1 / Scale
tol_stall_average == 1
\* tol_stall_best(1e-6), in units of 1e-6
tol_stall_best == 1
BestUnit == 1000000

Infinity == 1000000000
Unset == -1

Genes == 0 .. MaxGene

Min(a, b) == IF a < b THEN a ELSE b
Max(a, b) == IF a > b THEN a ELSE b
Abs(a) == IF a < 0 THEN -a ELSE a

(***************************************************************************)
(* Enumerations                                                            *)
(***************************************************************************)
GaMode == {"SOGA", "IGA", "NSGA_III"}
StopReason == {"Undefined", "MaxGenerations", "StallAverage", "StallBest", "UserRequest"}

\* the std::function members of Genetic that check_settings inspects
Callbacks ==
  {"calculate_IGA_total_fitness", "calculate_SO_total_fitness",
   "calculate_MO_objectives", "distribution_objective_reductions",
   "init_genes", "eval_solution", "eval_solution_IGA", "mutate", "crossover",
   "SO_report_generation", "MO_report_generation"}

VARIABLES
  \* ---- settings (public members, constant during a run)
  problem_mode, population, elite_count, crossover_fraction, mutation_rate,
  generation_max, average_stall_max, best_stall_max,
  multi_threading, dynamic_threading, N_threads,
  user_initial_solutions, callbacks, fitness_constant, use_quick_sort,
  rejected_genes,
  \* ---- engine state
  user_request_stop, generation_step, average_stall_count, best_stall_count,
  generations_so_abs, last_generation,
  \* ---- multi-objective state
  N_robj, reference_vector_divisions, reference_vectors, ideal_objectives,
  \* ---- the call in progress: position, locals, result
  pc, new_generation, x_index, N_add, stop, error,
  \* ---- the locals of sequential_action, dynamic_thread_action and
  \* ---- static_thread_action, and the threads they run
  thread_pool, active_threads, action_at, offset, thread_i, x_index_start,
  \* ---- observable callback activity
  reports, evaluated,
  \* ---- the std::thread constructions of the thread action in progress
  launched,
  \* ---- a Matrix<double>: its members, the build (assert is compiled out
  \* ---- when NDEBUG is defined), the vector that the last call filled if
  \* ---- it was get_row or get_col, the value it returned if it was an
  \* ---- element read (<<>> after any other call), the last member call
  \* ---- and how it ended
  n_rows, n_cols, data, NDEBUG, out, last_call, outcome,
  \* ---- the member that switches the niching of select_population_MO on,
  \* ---- and the locals of the select_population_MO call in progress: the
  \* ---- indices (into g) of the chromosomes copied to g2, what is left of
  \* ---- the last front, the indices picked from it, and what
  \* ---- associate_to_references filled
  enable_reference_vectors, g2_chromosomes, last_front_members, to_add_indices,
  niche_count, associated_ref_vector, distances

settings ==
  <<problem_mode, population, elite_count, crossover_fraction, mutation_rate,
    generation_max, average_stall_max, best_stall_max,
    multi_threading, dynamic_threading, N_threads,
    user_initial_solutions, callbacks, fitness_constant, use_quick_sort,
    rejected_genes>>

\* the members that only the multi-objective path writes
mo_vars == <<N_robj, reference_vector_divisions, reference_vectors, ideal_objectives>>

\* the state of the thread action in progress
thread_vars ==
  <<thread_pool, active_threads, action_at, offset, thread_i, x_index_start, launched>>

vars ==
  <<problem_mode, population, elite_count, crossover_fraction, mutation_rate,
    generation_max, average_stall_max, best_stall_max,
    multi_threading, dynamic_threading, N_threads,
    user_initial_solutions, callbacks, fitness_constant, use_quick_sort,
    rejected_genes,
    user_request_stop, generation_step, average_stall_count, best_stall_count,
    generations_so_abs, last_generation,
    N_robj, reference_vector_divisions, reference_vectors, ideal_objectives,
    pc, new_generation, x_index, N_add, stop, error,
    thread_pool, active_threads, action_at, offset, thread_i, x_index_start,
    reports, evaluated, launched,
    n_rows, n_cols, data, NDEBUG, out, last_call, outcome,
    enable_reference_vectors, g2_chromosomes, last_front_members, to_add_indices,
    niche_count, associated_ref_vector, distances>>

\* the niching switch and the locals of select_population_MO
niching_vars ==
  <<enable_reference_vectors, g2_chromosomes, last_front_members, to_add_indices,
    niche_count, associated_ref_vector, distances>>

\* no select_population_MO call is in progress
NoSelection ==
  /\ g2_chromosomes = <<>>
  /\ last_front_members = <<>>
  /\ to_add_indices = <<>>
  /\ niche_count = <<>>
  /\ associated_ref_vector = <<>>
  /\ distances = <<>>

\* the Matrix object and what its caller sees
matrix_vars == <<n_rows, n_cols, data, NDEBUG, out, last_call, outcome>>

\* a member call of Matrix with its arguments (of the argument of operator=
\* the number of rows and the length of each row), and the call it came after
Call(op, idx, vec) == [op |-> op, idx |-> idx, vec |-> vec, after |-> <<"", 0>>]
Then(call) == [call EXCEPT !.after = <<last_call.op, last_call.idx>>]

\* Matrix(): n_rows(0), n_cols(0), data()
DefaultMatrix(builds) ==
  /\ n_rows = 0
  /\ n_cols = 0
  /\ data = <<>>
  /\ NDEBUG \in builds
  /\ out = <<>>
  /\ last_call = Call("Matrix", 0, <<>>)
  /\ outcome = "ok"

(***************************************************************************)
(* Data model                                                              *)
(***************************************************************************)
\* ChromosomeType: a default-constructed chromosome has no cost yet
ChromosomeType(g) == [genes |-> g, total_cost |-> Unset, objectives |-> <<>>]

\* the pre-fill value ThisChromosomeType() of the thread-pool paths
DefaultGenes == -1
PlaceholderChromosome == ChromosomeType(DefaultGenes)

\* GenerationType: a default-constructed generation
GenerationType ==
  [chromosomes |-> <<>>,
   best_total_cost |-> Infinity,
   average_cost |-> 0,
   best_chromosome_index |-> -1,
   sorted_indices |-> <<>>,
   fronts |-> <<>>,
   selection_chance_cumulative |-> <<>>]

\* GenerationTypeSOAbstract: the summary kept in generations_so_abs
GenerationTypeSOAbstract(generation) ==
  [best_total_cost |-> generation.best_total_cost,
   average_cost |-> generation.average_cost]

is_single_objective == problem_mode \in {"SOGA", "IGA"}
is_interactive == problem_mode = "IGA"


(***************************************************************************)
(* check_settings: the message of the first check that fails, "" if none   *)
(***************************************************************************)
IsNull(cb) == cb \notin callbacks

\* check_settings_interactive without the eval_solution_IGA null check
check_settings_interactive_no_eval_check ==
  IF IsNull("calculate_IGA_total_fitness") THEN "calculate_IGA_total_fitness is null in interactive mode!"
  ELSE IF ~IsNull("calculate_SO_total_fitness") THEN "calculate_SO_total_fitness is not null in interactive mode!"
  ELSE IF ~IsNull("calculate_MO_objectives") THEN "calculate_MO_objectives is not null in interactive mode!"
  ELSE IF ~IsNull("distribution_objective_reductions") THEN "distribution_objective_reductions is not null in interactive mode!"
  ELSE IF ~IsNull("MO_report_generation") THEN "MO_report_generation is not null in interactive mode!"
  ELSE IF ~IsNull("eval_solution") THEN "eval_solution is not null in interactive mode (use eval_solution_IGA instead)!"
  ELSE ""

check_settings_interactive ==
  IF IsNull("calculate_IGA_total_fitness") THEN "calculate_IGA_total_fitness is null in interactive mode!"
  ELSE IF ~IsNull("calculate_SO_total_fitness") THEN "calculate_SO_total_fitness is not null in interactive mode!"
  ELSE IF ~IsNull("calculate_MO_objectives") THEN "calculate_MO_objectives is not null in interactive mode!"
  ELSE IF ~IsNull("distribution_objective_reductions") THEN "distribution_objective_reductions is not null in interactive mode!"
  ELSE IF ~IsNull("MO_report_generation") THEN "MO_report_generation is not null in interactive mode!"
  ELSE IF IsNull("eval_solution_IGA") THEN "eval_solution_IGA is null in interactive mode!"
  ELSE IF ~IsNull("eval_solution") THEN "eval_solution is not null in interactive mode (use eval_solution_IGA instead)!"
  ELSE ""

check_settings_single_objective ==
  IF IsNull("calculate_SO_total_fitness") THEN "calculate_SO_total_fitness is null in single objective mode!"
  ELSE IF ~IsNull("calculate_MO_objectives") THEN "calculate_MO_objectives is not null in single objective mode!"
  ELSE IF ~IsNull("distribution_objective_reductions") THEN "distribution_objective_reductions is not null in single objective mode!"
  ELSE IF ~IsNull("MO_report_generation") THEN "MO_report_generation is not null in single objective mode!"
  ELSE ""

check_settings_multi_objective ==
  IF ~IsNull("calculate_SO_total_fitness") THEN "calculate_SO_total_fitness is no null in multi-objective mode!"
  ELSE IF IsNull("calculate_MO_objectives") THEN "calculate_MO_objectives is null in multi-objective mode!"
  ELSE IF IsNull("MO_report_generation") THEN "MO_report_generation is null in multi-objective mode!"
  ELSE ""

check_settings_non_interactive ==
  IF ~IsNull("calculate_IGA_total_fitness") THEN "calculate_IGA_total_fitness is not null in non-interactive mode!"
  ELSE IF ~IsNull("eval_solution_IGA") THEN "eval_solution_IGA is not null in non-interactive mode!"
  ELSE IF IsNull("eval_solution") THEN "eval_solution is null!"
  ELSE IF is_single_objective THEN check_settings_single_objective
  ELSE check_settings_multi_objective

check_settings_common ==
  IF IsNull("init_genes") THEN "init_genes is not adjusted."
  ELSE IF IsNull("mutate") THEN "mutate is not adjusted."
  ELSE IF IsNull("crossover") THEN "crossover is not adjusted."
  ELSE IF N_threads < 1 THEN "Number of threads is below 1."
  ELSE IF population < 1 THEN "population is below 1."
  ELSE IF is_single_objective
    THEN IF IsNull("SO_report_generation") THEN "SO_report_generation is not adjusted while problem mode is single-objective"
         ELSE IF ~IsNull("MO_report_generation") THEN "MO_report_generation is adjusted while problem mode is single-objective"
         ELSE ""
    ELSE IF ~IsNull("SO_report_generation") THEN "SO_report_generation is adjusted while problem mode is multi-objective"
         ELSE IF IsNull("MO_report_generation") THEN "MO_report_generation is not adjusted while problem mode is multi-objective"
         ELSE ""

check_settings ==
  LET mode_error == IF is_interactive THEN check_settings_interactive
                    ELSE check_settings_non_interactive
  IN IF mode_error # "" THEN mode_error ELSE check_settings_common

(***************************************************************************)
(* The user's fitness callbacks.  calculate_SO_total_fitness and           *)
(* calculate_IGA_total_fitness are deterministic functions of the genes:   *)
(* constant 0, or the gene value itself.                                   *)
(***************************************************************************)
calculate_SO_total_fitness(X) == IF fitness_constant THEN 0 ELSE X.genes

\* the interactive fitness assigns every chromosome of the generation its cost
calculate_IGA_total_fitness(g) ==
  [g EXCEPT !.chromosomes =
     [i \in 1 .. Len(g.chromosomes) |->
        [g.chromosomes[i] EXCEPT !.total_cost = IF fitness_constant THEN 0 ELSE g.chromosomes[i].genes]]]

\* two objectives; gene 0 dominates every other gene, odd and even genes
\* above 0 trade off against each other
calculate_MO_objectives(X) == <<X.genes % 2, X.genes \div 2>>

\* finalize_objectives without its user_request_stop guard
finalize_objectives_body(g) ==
  CASE problem_mode = "SOGA" ->
         [g EXCEPT !.chromosomes =
            [i \in 1 .. Len(g.chromosomes) |->
               [g.chromosomes[i] EXCEPT !.total_cost = calculate_SO_total_fitness(g.chromosomes[i])]]]
    [] problem_mode = "IGA" -> calculate_IGA_total_fitness(g)
    [] problem_mode = "NSGA_III" ->
         [g EXCEPT !.chromosomes =
            [i \in 1 .. Len(g.chromosomes) |->
               [g.chromosomes[i] EXCEPT !.objectives = calculate_MO_objectives(g.chromosomes[i])]]]

finalize_objectives(g) == IF user_request_stop THEN g ELSE finalize_objectives_body(g)

(***************************************************************************)
(* Single-objective ranking: quicksort_indices_SO and rank_population_SO   *)
(***************************************************************************)
Cost(gen, i) == gen.chromosomes[i + 1].total_cost

Swap(arr, p, q) == [arr EXCEPT ![p + 1] = arr[q + 1], ![q + 1] = arr[p + 1]]

RECURSIVE ScanLeft(_, _, _, _, _)
\* while ((cost[array_indices[l]] <= x) && (l < right)) l++;
ScanLeft(arr, gen, l, right, x) ==
  IF Cost(gen, arr[l + 1]) <= x /\ l < right
  THEN ScanLeft(arr, gen, l + 1, right, x)
  ELSE l

RECURSIVE ScanRight(_, _, _, _, _)
\* while ((cost[array_indices[r]] > x) && (r >= left)) r--;
ScanRight(arr, gen, r, left, x) ==
  IF Cost(gen, arr[r + 1]) > x /\ r >= left
  THEN ScanRight(arr, gen, r - 1, left, x)
  ELSE r

RECURSIVE PartitionLoop(_, _, _, _, _, _, _)
\* the while (l < r) loop; the result is <<array_indices, r>>
PartitionLoop(arr, gen, l, r, left, right, x) ==
  IF l < r
  THEN LET l2 == ScanLeft(arr, gen, l, right, x)
           r2 == ScanRight(arr, gen, r, left, x)
           arr2 == IF l2 < r2 THEN Swap(arr, l2, r2) ELSE arr
       IN PartitionLoop(arr2, gen, l2, r2, left, right, x)
  ELSE <<arr, r>>

\* quicksort_indices_SO that does not sort the part right of the pivot
quicksort_indices_SO_left_only(array_indices, gen, left, right) ==
  IF left < right
  THEN LET x == Cost(gen, array_indices[left + 1])
           res == PartitionLoop(array_indices, gen, left, right, left, right, x)
           middle == res[2]
           arr == Swap(res[1], left, middle)
       IN IF middle - 1 > left
          THEN Swap(arr, left, middle - 1)
          ELSE arr
  ELSE array_indices

RECURSIVE quicksort_indices_SO(_, _, _, _)
quicksort_indices_SO(array_indices, gen, left, right) ==
  IF left < right
  THEN LET x == Cost(gen, array_indices[left + 1])
           res == PartitionLoop(array_indices, gen, left, right, left, right, x)
           middle == res[2]
           arr == Swap(res[1], left, middle)
       IN quicksort_indices_SO(quicksort_indices_SO(arr, gen, left, middle - 1),
                               gen, middle + 1, right)
  ELSE array_indices

RECURSIVE Arrangements(_, _)
\* the sequences of n distinct elements of S
Arrangements(S, n) ==
  IF n = 0 THEN {<<>>}
  ELSE UNION {{<<e>> \o rest : rest \in Arrangements(S \ {e}, n - 1)} : e \in S}

\* std::sort with the comparator total_cost[a] < total_cost[b]: some
\* arrangement of the indices in which no later cost is below an earlier one
\* (the order of equal costs is not specified)
std_sort(array_indices, gen) ==
  LET N == Len(array_indices)
  IN {sorted \in Arrangements({array_indices[i] : i \in 1 .. N}, N) :
        \A i \in 1 .. N - 1 : ~(Cost(gen, sorted[i + 1]) < Cost(gen, sorted[i]))}

RECURSIVE CumulativeChance(_, _)
\* chance_cumulative after the first k chromosomes; rank is 0-based
CumulativeChance(rank, k) ==
  IF k = 0 THEN 0 ELSE CumulativeChance(rank, k - 1) + Weight(rank[k - 1])

\* generate_selection_chance: the cumulative sums, then the in-place
\* normalisation by entry [population - 1]: the entries before it are
\* divided by its raw value, it becomes 1.0 itself, and the entries after
\* it are divided by the 1.0 it now holds.
generate_selection_chance(gen, rank) ==
  LET N == Len(gen.chromosomes)
      raw == [k \in 1 .. N |-> CumulativeChance(rank, k)]
  IN [gen EXCEPT !.selection_chance_cumulative =
        [k \in 1 .. N |->
           IF k < population THEN (raw[k] * Scale) \div raw[population]
           ELSE IF k = population THEN Scale
           ELSE raw[k]]]

\* the generations rank_population_SO can produce
rank_population_SO(gen) ==
  LET N == Len(gen.chromosomes)
      indices == [i \in 1 .. N |-> i - 1]
      outcomes == IF use_quick_sort THEN {quicksort_indices_SO(indices, gen, 0, N - 1)}
                  ELSE std_sort(indices, gen)
      ranks(sorted) == [c \in 0 .. N - 1 |-> (CHOOSE i \in 1 .. N : sorted[i] = c) - 1]
  IN {generate_selection_chance([gen EXCEPT !.sorted_indices = sorted], ranks(sorted)) :
        sorted \in outcomes}

(***************************************************************************)
(* Multi-objective ranking: dominates and rank_population_MO               *)
(***************************************************************************)
\* dominates throws when the two objective vectors differ in length
dominates_error(a, b) ==
  IF Len(a.objectives) # Len(b.objectives) THEN "vector size mismatch A73592753!" ELSE ""

\* dominates without the second loop: true when no component exceeds
dominates_weak(a, b) ==
  \A i \in 1 .. Len(a.objectives) : ~(a.objectives[i] > b.objectives[i])

dominates(a, b) ==
  /\ \A i \in 1 .. Len(a.objectives) : ~(a.objectives[i] > b.objectives[i])
  /\ \E i \in 1 .. Len(a.objectives) : a.objectives[i] < b.objectives[i]

\* domination_set[i], in ascending index order (the order of insertion)
RECURSIVE DominationSeq(_, _, _)
DominationSeq(gen, i, j) ==
  IF j >= Len(gen.chromosomes) THEN <<>>
  ELSE (IF j # i /\ dominates(gen.chromosomes[i + 1], gen.chromosomes[j + 1])
        THEN <<j>> ELSE <<>>) \o DominationSeq(gen, i, j + 1)

DominatedCount(gen, j) ==
  Cardinality({i \in 0 .. Len(gen.chromosomes) - 1 :
                 i # j /\ dominates(gen.chromosomes[i + 1], gen.chromosomes[j + 1])})

RECURSIVE SeqFilter(_, _, _)
\* the indices k..N-1 whose count is 0, ascending
SeqFilter(count, k, N) ==
  IF k >= N THEN <<>>
  ELSE (IF count[k] = 0 THEN <<k>> ELSE <<>>) \o SeqFilter(count, k + 1, N)

RECURSIVE Visits(_, _, _)
\* the indices j visited by  for i : last_front  for j : domination_set[i]
Visits(gen, last_front, k) ==
  IF k > Len(last_front) THEN <<>>
  ELSE DominationSeq(gen, last_front[k], 0) \o Visits(gen, last_front, k + 1)

\* NextFront that puts every visited index into the next front
NextFrontEager(visits, k, count, front) == <<front \o visits, count>>

RECURSIVE NextFront(_, _, _, _)
\* if (--dominated_count[j] == 0) next_front.push_back(j); result <<front, count>>
NextFront(visits, k, count, front) ==
  IF k > Len(visits) THEN <<front, count>>
  ELSE LET j == visits[k]
           c2 == [count EXCEPT ![j] = count[j] - 1]
       IN NextFront(visits, k + 1, c2, IF c2[j] = 0 THEN Append(front, j) ELSE front)

RECURSIVE BuildFronts(_, _, _)
BuildFronts(gen, fronts, count) ==
  LET res == NextFront(Visits(gen, fronts[Len(fronts)], 1), 1, count, <<>>)
  IN IF res[1] = <<>> THEN fronts
     ELSE BuildFronts(gen, Append(fronts, res[1]), res[2])

rank_population_MO(gen) ==
  LET N == Len(gen.chromosomes)
      count == [j \in 0 .. N - 1 |-> DominatedCount(gen, j)]
      fronts == BuildFronts(gen, <<SeqFilter(count, 0, N)>>, count)
      ranks == [c \in 0 .. N - 1 |->
                  (CHOOSE f \in 1 .. Len(fronts) :
                     \E k \in 1 .. Len(fronts[f]) : fronts[f][k] = c) - 1]
  IN generate_selection_chance([gen EXCEPT !.fronts = fronts], ranks)

\* the error rank_population ends with, "" if none: rank_population_MO calls
\* dominates for every pair of chromosomes
rank_population_error(gen) ==
  IF user_request_stop \/ is_single_objective THEN ""
  ELSE IF \E i, j \in 1 .. Len(gen.chromosomes) :
            dominates_error(gen.chromosomes[i], gen.chromosomes[j]) # ""
  THEN "vector size mismatch A73592753!"
  ELSE ""

\* the generations rank_population can leave behind
rank_population(gen) ==
  IF user_request_stop THEN {gen}
  ELSE IF is_single_objective THEN rank_population_SO(gen)
  ELSE {rank_population_MO(gen)}

(***************************************************************************)
(* Reference vectors and ideal objectives of the multi-objective path      *)
(***************************************************************************)
RECURSIVE CombinationLoop(_, _, _, _)
\* for (i = 2; i <= r; ++i) { nCr *= (N - i + 1); nCr /= i; }
CombinationLoop(nCr, N, i, r) ==
  IF i > r THEN nCr
  ELSE CombinationLoop((nCr * (N - i + 1)) \div i, N, i + 1, r)

fast_combination_count(N, r) ==
  LET r2 == IF r * 2 > N THEN N - r ELSE r
  IN IF r2 = 0 THEN 1 ELSE CombinationLoop(N, N, 2, r2)

get_number_reference_vectors(N_objectives, N_divisions) ==
  fast_combination_count(N_objectives + N_divisions - 1, N_divisions)

RECURSIVE generate_integerReferenceVectors(_, _)
RECURSIVE IntegerRowsFrom(_, _, _)
RECURSIVE IntegerRowsFromExclusive(_, _, _)
\* IntegerRowsFrom with the loop condition i < N_division
IntegerRowsFromExclusive(dept, N_division, i) ==
  IF i >= N_division THEN <<>>
  ELSE LET tail == generate_integerReferenceVectors(dept - 1, N_division - i)
       IN [j \in 1 .. Len(tail) |-> <<i>> \o tail[j]] \o
          IntegerRowsFromExclusive(dept, N_division, i + 1)

\* the loop for (i = ...; i <= N_division; i++): i in front of every row of
\* the tail generated for dept - 1 and N_division - i
IntegerRowsFrom(dept, N_division, i) ==
  IF i > N_division THEN <<>>
  ELSE LET tail == generate_integerReferenceVectors(dept - 1, N_division - i)
       IN [j \in 1 .. Len(tail) |-> <<i>> \o tail[j]] \o
          IntegerRowsFrom(dept, N_division, i + 1)

\* defined for dept >= 1; see generate_referenceVectors_error
generate_integerReferenceVectors(dept, N_division) ==
  IF dept = 1 THEN << <<N_division>> >>
  ELSE IntegerRowsFrom(dept, N_division, 0)

generate_referenceVectors_error(dept) ==
  IF dept < 1 THEN "wrong vector dept!" ELSE ""

\* A(i, j) /= double(N_division): an element is kept as the quotient
\* num / den of two integers
generate_referenceVectors(dept, N_division) ==
  LET A == generate_integerReferenceVectors(dept, N_division)
  IN [i \in 1 .. Len(A) |->
        [j \in 1 .. Len(A[i]) |-> [num |-> A[i][j], den |-> N_division]]]

\* N_robj after calculate_N_robj (no objective reduction is installed)
calculate_N_robj(g) ==
  IF Len(g.chromosomes) = 0 THEN N_robj ELSE Len(g.chromosomes[1].objectives)

RECURSIVE AutoDivisions(_, _)
RECURSIVE AutoDivisionsStrict(_, _)
\* AutoDivisions with the loop condition < population
AutoDivisionsStrict(n_robj, d) ==
  IF get_number_reference_vectors(n_robj, d + 1) < population
  THEN AutoDivisionsStrict(n_robj, d + 1)
  ELSE d

\* while (get_number_reference_vectors(N_robj, d + 1) <= population) d++;
AutoDivisions(n_robj, d) ==
  IF get_number_reference_vectors(n_robj, d + 1) <= population
  THEN AutoDivisions(n_robj, d + 1)
  ELSE d

\* solve_init: <<reference_vector_divisions, error message>>
solve_init_divisions(n_robj) ==
  IF reference_vector_divisions # 0 THEN <<reference_vector_divisions, "">>
  ELSE IF n_robj = 1
  THEN <<2, "The length of objective vector is 1 in a multi-objective optimization">>
  ELSE <<AutoDivisions(n_robj, 2), "">>

\* IdealScan that never lowers a component
IdealScanNone(g, k, ideal) == ideal

RECURSIVE IdealScan(_, _, _)
\* for (x : g.chromosomes) for i: if (obj[i] < ideal[i]) ideal[i] = obj[i];
IdealScan(g, k, ideal) ==
  IF k > Len(g.chromosomes) THEN ideal
  ELSE IdealScan(g, k + 1,
                 [i \in 1 .. Len(ideal) |-> Min(ideal[i], g.chromosomes[k].objectives[i])])

update_ideal_objectives(g, reset) ==
  IF user_request_stop THEN ideal_objectives
  ELSE IdealScan(g, 1, IF reset THEN g.chromosomes[1].objectives ELSE ideal_objectives)

(***************************************************************************)
(* finalize_generation                                                     *)
(***************************************************************************)
\* BestScan that keeps the first chromosome as the best
BestScanFirst(gen, i, best, index) == <<best, index>>

RECURSIVE BestScan(_, _, _, _)
\* the loop over the chromosomes; the result is <<best, best_chromosome_index>>
BestScan(gen, i, best, index) ==
  IF i >= Len(gen.chromosomes) THEN <<best, index>>
  ELSE IF Cost(gen, i) <= best
       THEN BestScan(gen, i + 1, Cost(gen, i), i)
       ELSE BestScan(gen, i + 1, best, index)

RECURSIVE SumCost(_, _)
SumCost(gen, k) == IF k = 0 THEN 0 ELSE SumCost(gen, k - 1) + Cost(gen, k - 1)

finalize_generation(gen) ==
  IF user_request_stop THEN gen
  ELSE IF is_single_objective
  THEN LET res == BestScan(gen, 0, Cost(gen, 0), 0)
           N == Len(gen.chromosomes)
       IN [gen EXCEPT !.best_chromosome_index = res[2],
                      !.best_total_cost = res[1],
                      !.average_cost = (SumCost(gen, N) * Scale) \div N]
  ELSE gen

(***************************************************************************)
(* select_parent: the positions it can return for some draw r of random01  *)
(* in [0, 1).  It returns the first position whose cumulative chance is    *)
(* not below r, and N_max when there is none.                              *)
(***************************************************************************)
select_parent(g) ==
  LET N_max == Len(g.chromosomes)
      scc == g.selection_chance_cumulative
  IN {position \in 0 .. N_max :
        \E r \in {0, Scale - 1} \cup {scc[k] : k \in 1 .. N_max} \cup {scc[k] + 1 : k \in 1 .. N_max} :
          /\ r >= 0 /\ r < Scale
          /\ \A q \in 0 .. position - 1 : scc[q + 1] < r
          /\ position < N_max => ~(scc[position + 1] < r)}

(***************************************************************************)
(* select_population: the index sequences (into g.chromosomes) that the    *)
(* selection can copy into the selected generation                         *)
(***************************************************************************)
RECURSIVE SelectSamples(_, _, _)
\* the sampling loop of select_population_SO: draw j until it is not in
\* blocked, copy chromosome j, then block g.sorted_indices[j]
SelectSamples(g, blocked, n) ==
  IF n <= 0 THEN {<<>>}
  ELSE UNION {{<<j>> \o rest : rest \in SelectSamples(g, blocked \cup {g.sorted_indices[j + 1]}, n - 1)} :
                j \in {p \in select_parent(g) : p \notin blocked /\ p < Len(g.chromosomes)}}

\* select_population_SO without the elite slots: all places are sampled
select_population_SO_no_elites(g) ==
  SelectSamples(g, {}, population)

select_population_SO(g) ==
  LET elites == [i \in 1 .. elite_count |-> g.sorted_indices[i]]
  IN {elites \o rest :
        rest \in SelectSamples(g, {elites[i] : i \in 1 .. elite_count}, population - elite_count)}

RECURSIVE WholeFronts(_, _, _)
\* while (g2.size + fronts[last_front_index].size <= population): the
\* result is <<indices copied, last_front_index>> (0-based front index)
WholeFronts(g, picked, last_front_index) ==
  IF Len(picked) + Len(g.fronts[last_front_index + 1]) <= population
  THEN WholeFronts(g, picked \o g.fronts[last_front_index + 1], last_front_index + 1)
  ELSE <<picked, last_front_index>>

\* select_population_MO for more than population chromosomes: whole fronts
\* while they fit, then members of the next front, each at most once.  Which
\* members the niching (or the random fill) picks depends on random01 and on
\* the reference-vector distances; every choice is allowed here.
select_population_MO(g) ==
  LET res == WholeFronts(g, <<>>, 0)
      last_front == g.fronts[res[2] + 1]
  IN {res[1] \o to_add :
        to_add \in Arrangements({last_front[k] : k \in 1 .. Len(last_front)},
                                population - Len(res[1]))}

\* the generation built from the chosen indices: only chromosomes are copied
Selected(g, indices) ==
  [GenerationType EXCEPT !.chromosomes =
     [k \in 1 .. Len(indices) |-> g.chromosomes[indices[k] + 1]]]

(***************************************************************************)
(* transfer                                                                *)
(***************************************************************************)
\* transfer that copies the worst chromosome of last_generation in the place
\* of the best one
transfer_losing_best(generation) ==
  IF user_request_stop THEN generation
  ELSE IF ~is_interactive
  THEN [generation EXCEPT !.chromosomes =
          generation.chromosomes \o
          [k \in 1 .. Len(last_generation.chromosomes) |->
             IF is_single_objective /\ k = last_generation.sorted_indices[1] + 1
             THEN last_generation.chromosomes[
                    last_generation.sorted_indices[Len(last_generation.sorted_indices)] + 1]
             ELSE last_generation.chromosomes[k]]]
  ELSE [generation EXCEPT !.chromosomes =
          generation.chromosomes \o
          [i \in 1 .. elite_count |->
             last_generation.chromosomes[last_generation.sorted_indices[i] + 1]]]

transfer(generation) ==
  IF user_request_stop THEN generation
  ELSE IF ~is_interactive
  THEN [generation EXCEPT !.chromosomes = generation.chromosomes \o last_generation.chromosomes]
  ELSE [generation EXCEPT !.chromosomes =
          generation.chromosomes \o
          [i \in 1 .. elite_count |->
             last_generation.chromosomes[last_generation.sorted_indices[i] + 1]]]

(***************************************************************************)
(* Threading strategy of init_population and crossover_and_mutation        *)
(***************************************************************************)
\* Threading without the is_interactive() test
ThreadingIgnoringMode ==
  IF ~multi_threading \/ N_threads = 1 THEN "sequential"
  ELSE IF dynamic_threading THEN "dynamic"
  ELSE "static"

Threading ==
  IF ~multi_threading \/ N_threads = 1 \/ is_interactive THEN "sequential"
  ELSE IF dynamic_threading THEN "dynamic"
  ELSE "static"

\* dynamic_thread_action and static_thread_action pre-fill N slots
PreFill(generation, N) ==
  IF Threading = "sequential" THEN generation
  ELSE [generation EXCEPT !.chromosomes =
          generation.chromosomes \o [i \in 1 .. N |-> PlaceholderChromosome]]

\* the accepted candidate X is appended (sequential) or written to its slot
Store(generation, X, n_add, index) ==
  IF Threading = "sequential"
  THEN [generation EXCEPT !.chromosomes = Append(generation.chromosomes, X)]
  ELSE [generation EXCEPT !.chromosomes[Len(generation.chromosomes) - n_add + index + 1] = X]

\* sequential_action and the dynamic pool stop handing out slots once
\* user_request_stop is set; static_thread_action hands out all of them
SlotsRemain ==
  x_index < N_add /\ (Threading = "static" \/ ~user_request_stop)

(***************************************************************************)
(* init_population: the loop over user_initial_solutions                   *)
(***************************************************************************)
RECURSIVE SeedLoop(_, _, _)
\* accepted[k] is the result of eval_solution for seed k
SeedLoop(chromosomes, accepted, k) ==
  IF k > Len(user_initial_solutions) THEN chromosomes
  ELSE LET next == IF accepted[k]
                   THEN Append(chromosomes, ChromosomeType(user_initial_solutions[k]))
                   ELSE chromosomes
       IN IF Len(next) >= population THEN next
          ELSE SeedLoop(next, accepted, k + 1)

\* N_add of init_population: the offset is read right after the clear()
init_population_N_add == Max(0, population - 0)

\* std::round(double(population) * crossover_fraction), tenths
Round10(x) == (2 * x + 10) \div 20
crossover_N_add == Round10(population * crossover_fraction)

(***************************************************************************)
(* stop_critera                                                            *)
(***************************************************************************)
StallBestNow(g1, g2) == Abs(g1.best_total_cost - g2.best_total_cost) * BestUnit < tol_stall_best
StallAverageNow(g1, g2) == Abs(g1.average_cost - g2.average_cost) < tol_stall_average

\* StallUpdate without the is_single_objective() test
StallUpdateInEveryMode ==
  IF Len(generations_so_abs) >= 2
  THEN LET g1 == generations_so_abs[Len(generations_so_abs) - 1]
           g2 == generations_so_abs[Len(generations_so_abs)]
       IN {<<IF StallBestNow(g1, g2) THEN best_stall_count + 1 ELSE 0,
             IF StallAverageNow(g1, g2) THEN average_stall_count + 1 ELSE 0>>}
  ELSE {<<b, a>> : b \in {best_stall_count + 1, 0}, a \in {average_stall_count + 1, 0}}

\* the pairs <<best_stall_count, average_stall_count>> after the update.
\* With fewer than two entries in generations_so_abs the two references are
\* read outside the vector: each comparison can then go either way.
StallUpdate ==
  IF ~is_single_objective THEN {<<best_stall_count, average_stall_count>>}
  ELSE IF Len(generations_so_abs) >= 2
  THEN LET g1 == generations_so_abs[Len(generations_so_abs) - 1]
           g2 == generations_so_abs[Len(generations_so_abs)]
       IN {<<IF StallBestNow(g1, g2) THEN best_stall_count + 1 ELSE 0,
             IF StallAverageNow(g1, g2) THEN average_stall_count + 1 ELSE 0>>}
  ELSE {<<b, a>> : b \in {best_stall_count + 1, 0}, a \in {average_stall_count + 1, 0}}

\* StopDecision with the user request checked first
StopDecisionUserFirst(best_stall, average_stall) ==
  IF user_request_stop THEN "UserRequest"
  ELSE IF generation_step >= generation_max THEN "MaxGenerations"
  ELSE IF average_stall >= average_stall_max THEN "StallAverage"
  ELSE IF best_stall >= best_stall_max THEN "StallBest"
  ELSE "Undefined"

\* StopDecision with the best stall checked before the average stall
StopDecisionBestFirst(best_stall, average_stall) ==
  IF generation_step >= generation_max THEN "MaxGenerations"
  ELSE IF best_stall >= best_stall_max THEN "StallBest"
  ELSE IF average_stall >= average_stall_max THEN "StallAverage"
  ELSE IF user_request_stop THEN "UserRequest"
  ELSE "Undefined"

\* the checks after the stall update, in source order
StopDecision(best_stall, average_stall) ==
  IF generation_step >= generation_max THEN "MaxGenerations"
  ELSE IF average_stall >= average_stall_max THEN "StallAverage"
  ELSE IF best_stall >= best_stall_max THEN "StallBest"
  ELSE IF user_request_stop THEN "UserRequest"
  ELSE "Undefined"

\* the first line of stop_critera
StopEarlyReturn == generation_step < 2 /\ ~user_request_stop

(***************************************************************************)
(* Initial states: a freshly constructed engine with its settings          *)
(***************************************************************************)
RequiredCallbacks(mode) ==
  {"init_genes", "mutate", "crossover"} \cup
  (CASE mode = "SOGA" -> {"eval_solution", "calculate_SO_total_fitness", "SO_report_generation"}
     [] mode = "IGA" -> {"eval_solution_IGA", "calculate_IGA_total_fitness", "SO_report_generation"}
     [] mode = "NSGA_III" -> {"eval_solution", "calculate_MO_objectives", "MO_report_generation"})

InitEngineMembers ==
  /\ user_request_stop = FALSE
  /\ generation_step = -1
  /\ average_stall_count = 0
  /\ best_stall_count = 0
  /\ generations_so_abs = <<>>
  /\ last_generation = GenerationType
  /\ N_robj = 0
  /\ reference_vector_divisions = 0
  /\ reference_vectors = <<>>
  /\ ideal_objectives = <<>>
  /\ pc = "idle"
  /\ new_generation = GenerationType
  /\ x_index = 0
  /\ N_add = 0
  /\ stop = "Undefined"
  /\ error = ""
  /\ thread_pool = <<>>
  /\ active_threads = <<>>
  /\ action_at = "outside"
  /\ offset = 0
  /\ thread_i = 0
  /\ x_index_start = 0
  /\ reports = <<>>
  /\ evaluated = FALSE
  /\ launched = <<>>
  /\ enable_reference_vectors = TRUE
  /\ NoSelection

\* the engine as constructed; the Matrix next to it is not used
InitEngine == InitEngineMembers /\ DefaultMatrix({FALSE})

\* the settings drawn from the given sets; callbacks as the mode requires
Settings(modes, fractions, rates, gen_maxes, avg_maxes, best_maxes, threadings, seeds, fitnesses) ==
  /\ problem_mode \in modes
  /\ population \in 1 .. MaxPop
  /\ elite_count \in 0 .. population
  /\ crossover_fraction \in fractions
  /\ mutation_rate \in rates
  /\ generation_max \in gen_maxes
  /\ average_stall_max \in avg_maxes
  /\ best_stall_max \in best_maxes
  /\ \E t \in threadings : multi_threading = t[1] /\ dynamic_threading = t[2]
  /\ N_threads = 2
  /\ user_initial_solutions \in seeds
  /\ callbacks = RequiredCallbacks(problem_mode)
  /\ fitness_constant \in fitnesses
  /\ use_quick_sort = TRUE
  /\ rejected_genes = {}

Sequential == <<FALSE, TRUE>>
DynamicPool == <<TRUE, TRUE>>
StaticPool == <<TRUE, FALSE>>

RECURSIVE SeedsUpTo(_)
\* the sequences of at most n genes
SeedsUpTo(n) ==
  IF n = 0 THEN {<<>>}
  ELSE SeedsUpTo(n - 1) \cup
       {Append(s, g) : s \in {t \in SeedsUpTo(n - 1) : Len(t) = n - 1}, g \in Genes}

\* valid settings running sequentially without seeds
InitPlain ==
  Settings(GaMode, {5, 10}, {1}, 1 .. MaxGenerationMax, 1 .. MaxStall, 1 .. MaxStall,
           {Sequential}, {<<>>}, BOOLEAN)

\* user_initial_solutions
InitSeeded ==
  Settings(GaMode, {10}, {1}, {MaxGenerationMax - 1}, {MaxStall}, {MaxStall},
           {Sequential, DynamicPool}, SeedsUpTo(MaxSeeds) \ {<<>>}, {FALSE})

\* the two thread pools
InitThreaded ==
  Settings(GaMode, {10}, {1}, {MaxGenerationMax - 1}, {MaxStall}, {MaxStall},
           {DynamicPool, StaticPool}, {<<>>}, {FALSE})

\* settings that crossover_and_mutation rejects
InitRejected ==
  \/ Settings(GaMode, {0, 15}, {1}, {MaxGenerationMax}, {MaxStall}, {MaxStall},
              {Sequential}, {<<>>}, {FALSE})
  \/ Settings(GaMode, {10}, {-1, 11}, {MaxGenerationMax}, {MaxStall}, {MaxStall},
              {Sequential}, {<<>>}, {FALSE})

Init ==
  /\ InitEngine
  /\ InitPlain \/ InitSeeded \/ InitThreaded \/ InitRejected

(***************************************************************************)
(* solve(): solve_init                                                     *)
(***************************************************************************)
Raise(message) ==
  /\ pc' = "error"
  /\ error' = message

\* solve_init up to the first slot of init_population
SolveInit ==
  /\ pc = "idle"
  /\ IF check_settings # ""
     THEN /\ Raise(check_settings)
          /\ UNCHANGED <<settings, matrix_vars, niching_vars, mo_vars, thread_vars, user_request_stop, generation_step, average_stall_count,
                         best_stall_count, generations_so_abs, last_generation,
                         new_generation, x_index, N_add, stop, reports, evaluated>>
     ELSE /\ \E accepted \in [1 .. Len(user_initial_solutions) -> BOOLEAN] :
               new_generation' =
                 PreFill([GenerationType EXCEPT !.chromosomes = SeedLoop(<<>>, accepted, 1)],
                         init_population_N_add)
          /\ average_stall_count' = 0
          /\ best_stall_count' = 0
          /\ generation_step' = -1
          /\ N_add' = init_population_N_add
          /\ x_index' = 0
          /\ evaluated' = (evaluated \/ user_initial_solutions # <<>>)
          /\ pc' = "init_population"
          /\ UNCHANGED <<settings, matrix_vars, niching_vars, mo_vars, thread_vars, user_request_stop, generations_so_abs, last_generation,
                         stop, error, reports>>

\* init_population_range for one slot: candidates are drawn with init_genes
\* until eval_solution accepts one
InitPopulationSlot ==
  /\ pc = "init_population"
  /\ SlotsRemain
  /\ \E g \in Genes :
       new_generation' = Store(new_generation, ChromosomeType(g), N_add, x_index)
  /\ x_index' = x_index + 1
  /\ evaluated' = TRUE
  /\ UNCHANGED <<settings, matrix_vars, niching_vars, mo_vars, thread_vars, user_request_stop, generation_step, average_stall_count,
                 best_stall_count, generations_so_abs, last_generation,
                 pc, N_add, stop, error, reports>>

\* init_population returns; generation_step = 0
InitPopulationDone ==
  /\ pc = "init_population"
  /\ ~SlotsRemain
  /\ generation_step' = 0
  /\ x_index' = 0
  /\ N_add' = 0
  /\ pc' = "finalize_objectives"
  /\ UNCHANGED <<settings, matrix_vars, niching_vars, mo_vars, thread_vars, user_request_stop, average_stall_count,
                 best_stall_count, generations_so_abs, last_generation,
                 new_generation, stop, error, reports, evaluated>>

\* calculate_N_robj on generation 0 (no objective reduction: the reduced
\* objectives are the objectives)
calculate_N_robj_error(g) ==
  IF Len(g.chromosomes) = 0 THEN "Code should not reach here. A87946516564"
  ELSE IF Len(g.chromosomes[1].objectives) = 0 THEN "Number of the reduced objective is zero"
  ELSE ""

\* finalize_objectives; in solve_init of a multi-objective run also
\* calculate_N_robj
FinalizeObjectives ==
  /\ pc = "finalize_objectives"
  /\ LET g == finalize_objectives(new_generation)
         first == generation_step = 0 /\ ~is_single_objective
         message == IF first THEN calculate_N_robj_error(g) ELSE ""
         divisions == solve_init_divisions(calculate_N_robj(g))
     IN /\ new_generation' = g
        /\ N_robj' = IF first THEN calculate_N_robj(g) ELSE N_robj
        /\ IF message # ""
           THEN Raise(message) /\ UNCHANGED reference_vector_divisions
           ELSE IF first
           THEN /\ reference_vector_divisions' = divisions[1]
                /\ IF divisions[2] # "" THEN Raise(divisions[2])
                   ELSE pc' = "rank_population" /\ error' = error
           ELSE /\ pc' = "rank_population"
                /\ UNCHANGED <<error, reference_vector_divisions>>
  /\ UNCHANGED <<settings, matrix_vars, niching_vars, thread_vars, reference_vectors, ideal_objectives, user_request_stop, generation_step, average_stall_count,
                 best_stall_count, generations_so_abs, last_generation,
                 x_index, N_add, stop, reports, evaluated>>

\* rank_population on generation 0 or on the combined population
RankPopulation ==
  /\ pc = "rank_population"
  /\ IF rank_population_error(new_generation) # ""
     THEN /\ Raise(rank_population_error(new_generation))
          /\ UNCHANGED new_generation
     ELSE /\ new_generation' \in rank_population(new_generation)
          /\ pc' = IF generation_step = 0 THEN "finalize_generation" ELSE "select_population"
          /\ error' = error
  /\ UNCHANGED <<settings, matrix_vars, niching_vars, mo_vars, thread_vars, user_request_stop, generation_step, average_stall_count,
                 best_stall_count, generations_so_abs, last_generation,
                 x_index, N_add, stop, reports, evaluated>>

\* select_population, then new_generation = selected_generation
SelectPopulation ==
  /\ pc = "select_population"
  /\ IF user_request_stop
     THEN /\ new_generation' = GenerationType
          /\ UNCHANGED <<ideal_objectives, reference_vectors>>
     ELSE IF is_single_objective
     THEN /\ \E indices \in select_population_SO(new_generation) :
               new_generation' = Selected(new_generation, indices)
          /\ UNCHANGED <<ideal_objectives, reference_vectors>>
     ELSE /\ ideal_objectives' = update_ideal_objectives(new_generation, FALSE)
          /\ IF Len(new_generation.chromosomes) = population
             THEN /\ new_generation' = new_generation
                  /\ UNCHANGED reference_vectors
             ELSE /\ \E indices \in select_population_MO(new_generation) :
                       new_generation' = Selected(new_generation, indices)
                  /\ reference_vectors' =
                       IF reference_vectors = <<>>
                       THEN generate_referenceVectors(Len(new_generation.chromosomes[1].objectives),
                                                      reference_vector_divisions)
                       ELSE reference_vectors
  /\ pc' = "rank_selected"
  /\ UNCHANGED <<settings, matrix_vars, niching_vars, thread_vars, N_robj, reference_vector_divisions, user_request_stop, generation_step, average_stall_count,
                 best_stall_count, generations_so_abs, last_generation,
                 x_index, N_add, stop, error, reports, evaluated>>

\* the second rank_population of solve_next_generation
RankSelected ==
  /\ pc = "rank_selected"
  /\ IF rank_population_error(new_generation) # ""
     THEN /\ Raise(rank_population_error(new_generation))
          /\ UNCHANGED new_generation
     ELSE /\ new_generation' \in rank_population(new_generation)
          /\ pc' = "finalize_generation"
          /\ error' = error
  /\ UNCHANGED <<settings, matrix_vars, niching_vars, mo_vars, thread_vars, user_request_stop, generation_step, average_stall_count,
                 best_stall_count, generations_so_abs, last_generation,
                 x_index, N_add, stop, reports, evaluated>>

\* finalize_generation; in solve_init of a multi-objective run also
\* update_ideal_objectives(generation0, true)
FinalizeGeneration ==
  /\ pc = "finalize_generation"
  /\ new_generation' = finalize_generation(new_generation)
  /\ ideal_objectives' = IF generation_step = 0 /\ ~is_single_objective
                         THEN update_ideal_objectives(new_generation, TRUE)
                         ELSE ideal_objectives
  /\ pc' = "history"
  /\ UNCHANGED <<settings, matrix_vars, niching_vars, thread_vars, N_robj, reference_vector_divisions, reference_vectors, user_request_stop, generation_step, average_stall_count,
                 best_stall_count, generations_so_abs, last_generation,
                 x_index, N_add, stop, error, reports, evaluated>>

\* History without the user_request_stop check
HistoryAlwaysPushes ==
  /\ pc = "history"
  /\ generations_so_abs' = Append(generations_so_abs, GenerationTypeSOAbstract(new_generation))
  /\ reports' = Append(reports, generation_step)
  /\ pc' = "last_generation"
  /\ UNCHANGED <<settings, matrix_vars, niching_vars, mo_vars, thread_vars, user_request_stop, generation_step, average_stall_count,
                 best_stall_count, last_generation,
                 new_generation, x_index, N_add, stop, error, evaluated>>

\* if (!user_request_stop) { generations_so_abs.push_back(...); report_generation(...); }
History ==
  /\ pc = "history"
  /\ IF ~user_request_stop
     THEN /\ generations_so_abs' = Append(generations_so_abs, GenerationTypeSOAbstract(new_generation))
          /\ reports' = Append(reports, generation_step)
     ELSE UNCHANGED <<generations_so_abs, reports>>
  /\ pc' = "last_generation"
  /\ UNCHANGED <<settings, matrix_vars, niching_vars, mo_vars, thread_vars, user_request_stop, generation_step, average_stall_count,
                 best_stall_count, last_generation,
                 new_generation, x_index, N_add, stop, error, evaluated>>

\* last_generation = generation0; solve_init returns to solve()
SolveInitReturn ==
  /\ pc = "last_generation"
  /\ generation_step = 0
  /\ last_generation' = new_generation
  /\ pc' = "solve_next_generation"
  /\ UNCHANGED <<settings, matrix_vars, niching_vars, mo_vars, thread_vars, user_request_stop, generation_step, average_stall_count,
                 best_stall_count, generations_so_abs,
                 new_generation, x_index, N_add, stop, error, reports, evaluated>>

(***************************************************************************)
(* solve(): solve_next_generation                                          *)
(***************************************************************************)
\* NextGeneration with generation_step += 2
NextGenerationSkipsStep ==
  /\ pc = "solve_next_generation"
  /\ generation_step' = generation_step + 2
  /\ new_generation' = transfer(GenerationType)
  /\ pc' = "crossover_and_mutation"
  /\ UNCHANGED <<settings, matrix_vars, niching_vars, mo_vars, thread_vars, user_request_stop, average_stall_count,
                 best_stall_count, generations_so_abs, last_generation,
                 x_index, N_add, stop, error, reports, evaluated>>

\* while (stop == Undefined): generation_step++, a fresh new_generation, transfer
NextGeneration ==
  /\ pc = "solve_next_generation"
  /\ generation_step' = generation_step + 1
  /\ new_generation' = transfer(GenerationType)
  /\ pc' = "crossover_and_mutation"
  /\ UNCHANGED <<settings, matrix_vars, niching_vars, mo_vars, thread_vars, user_request_stop, average_stall_count,
                 best_stall_count, generations_so_abs, last_generation,
                 x_index, N_add, stop, error, reports, evaluated>>

\* the checks of crossover_and_mutation, "" if none fails
crossover_and_mutation_error ==
  IF crossover_fraction <= 0 \/ crossover_fraction > 10 THEN "Wrong crossover fractoin"
  ELSE IF mutation_rate < 0 \/ mutation_rate > 10 THEN "Wrong mutation rate"
  ELSE IF is_interactive /\ crossover_N_add + elite_count # population
  THEN "In IGA mode, elite fraction + crossover fraction must be equal to 1.0 !"
  ELSE ""

\* crossover_and_mutation up to the first slot
CrossoverAndMutation ==
  /\ pc = "crossover_and_mutation"
  /\ IF user_request_stop
     THEN /\ pc' = "finalize_objectives"
          /\ UNCHANGED <<new_generation, x_index, N_add, error>>
     ELSE IF crossover_and_mutation_error # ""
     THEN /\ Raise(crossover_and_mutation_error)
          /\ UNCHANGED <<new_generation, x_index, N_add>>
     ELSE /\ N_add' = crossover_N_add
          /\ x_index' = 0
          /\ new_generation' = PreFill(new_generation, crossover_N_add)
          /\ pc' = "variation"
          /\ error' = error
  /\ UNCHANGED <<settings, matrix_vars, niching_vars, mo_vars, thread_vars, user_request_stop, generation_step, average_stall_count,
                 best_stall_count, generations_so_abs, last_generation,
                 stop, reports, evaluated>>

\* crossover_and_mutation_range for one slot: two different parents are
\* drawn from last_generation (the pair is redrawn while they are equal),
\* the child comes from the user's crossover and mutate, and the slot is
\* retried until eval_solution accepts the child
VariationSlot ==
  /\ pc = "variation"
  /\ SlotsRemain
  /\ \E pidx_c1, pidx_c2 \in select_parent(last_generation) :
       /\ pidx_c1 # pidx_c2
       /\ pidx_c1 < Len(last_generation.chromosomes)
       /\ pidx_c2 < Len(last_generation.chromosomes)
  /\ \E g \in Genes :
       new_generation' = Store(new_generation, ChromosomeType(g), N_add, x_index)
  /\ x_index' = x_index + 1
  /\ evaluated' = TRUE
  /\ UNCHANGED <<settings, matrix_vars, niching_vars, mo_vars, thread_vars, user_request_stop, generation_step, average_stall_count,
                 best_stall_count, generations_so_abs, last_generation,
                 pc, N_add, stop, error, reports>>

VariationDone ==
  /\ pc = "variation"
  /\ ~SlotsRemain
  /\ x_index' = 0
  /\ N_add' = 0
  /\ pc' = "finalize_objectives"
  /\ UNCHANGED <<settings, matrix_vars, niching_vars, mo_vars, thread_vars, user_request_stop, generation_step, average_stall_count,
                 best_stall_count, generations_so_abs, last_generation,
                 new_generation, stop, error, reports, evaluated>>

\* last_generation = new_generation; return stop_critera();
StopCritera ==
  /\ pc = "last_generation"
  /\ generation_step >= 1
  /\ last_generation' = new_generation
  /\ IF StopEarlyReturn
     THEN /\ stop' = "Undefined"
          /\ UNCHANGED <<best_stall_count, average_stall_count>>
     ELSE \E counts \in StallUpdate :
            /\ best_stall_count' = counts[1]
            /\ average_stall_count' = counts[2]
            /\ stop' = StopDecision(counts[1], counts[2])
  /\ pc' = IF stop' = "Undefined" THEN "solve_next_generation" ELSE "done"
  /\ UNCHANGED <<settings, matrix_vars, niching_vars, mo_vars, thread_vars, user_request_stop, generation_step, generations_so_abs,
                 new_generation, x_index, N_add, error, reports, evaluated>>

\* stop_critera reads generations_so_abs[size - 2] with fewer than two
\* entries: the read outside the vector can also end the process
StopCriteraCrash ==
  /\ pc = "last_generation"
  /\ generation_step >= 1
  /\ ~StopEarlyReturn
  /\ is_single_objective
  /\ Len(generations_so_abs) < 2
  /\ last_generation' = new_generation
  /\ pc' = "crashed"
  /\ UNCHANGED <<settings, matrix_vars, niching_vars, mo_vars, thread_vars, user_request_stop, generation_step, average_stall_count,
                 best_stall_count, generations_so_abs,
                 new_generation, x_index, N_add, stop, error, reports, evaluated>>

(***************************************************************************)
(* The user sets user_request_stop (from a callback or another thread)     *)
(***************************************************************************)
UserRequestStop ==
  /\ pc \notin {"done", "error", "crashed"}
  /\ ~user_request_stop
  /\ user_request_stop' = TRUE
  /\ UNCHANGED <<settings, matrix_vars, niching_vars, mo_vars, thread_vars, generation_step, average_stall_count,
                 best_stall_count, generations_so_abs, last_generation,
                 pc, new_generation, x_index, N_add, stop, error, reports, evaluated>>

Next ==
  \/ SolveInit
  \/ InitPopulationSlot
  \/ InitPopulationDone
  \/ FinalizeObjectives
  \/ RankPopulation
  \/ SelectPopulation
  \/ RankSelected
  \/ FinalizeGeneration
  \/ History
  \/ SolveInitReturn
  \/ NextGeneration
  \/ CrossoverAndMutation
  \/ VariationSlot
  \/ VariationDone
  \/ StopCritera
  \/ StopCriteraCrash
  \/ UserRequestStop

Spec == Init /\ [][Next]_vars

(***************************************************************************)
(* Settings validation on its own: every combination of set and unset      *)
(* callbacks, population 0 and N_threads 0 included                        *)
(***************************************************************************)
InitAnySettings ==
  /\ InitEngine
  /\ problem_mode \in GaMode
  /\ population \in {0, MaxPop}
  /\ elite_count = 1
  /\ crossover_fraction = 5
  /\ mutation_rate = 1
  /\ generation_max = 2
  /\ average_stall_max = MaxStall
  /\ best_stall_max = MaxStall
  /\ multi_threading = FALSE
  /\ dynamic_threading = TRUE
  /\ N_threads \in {0, 1}
  /\ user_initial_solutions = <<>>
  /\ callbacks \in SUBSET Callbacks
  /\ fitness_constant = FALSE
  /\ use_quick_sort = TRUE
  /\ rejected_genes = {}

SpecSettings == InitAnySettings /\ [][Next]_vars

(***************************************************************************)
(* Direct calls.  The ranking and the finalization of generation 0 for any *)
(* evaluated population (the costs and objective vectors are whatever the  *)
(* user's fitness callbacks returned), and generate_referenceVectors for   *)
(* any dept and N_division, which are held in N_robj and                   *)
(* reference_vector_divisions.                                             *)
(***************************************************************************)
RECURSIVE SeqsUpTo(_, _)
\* the non-empty sequences of at most n elements of S
SeqsUpTo(S, n) ==
  IF n = 1 THEN {<<e>> : e \in S}
  ELSE SeqsUpTo(S, n - 1) \cup
       {Append(q, e) : q \in {t \in SeqsUpTo(S, n - 1) : Len(t) = n - 1}, e \in S}

\* chromosomes after finalize_objectives in single-objective mode
EvaluatedSO == {[ChromosomeType(0) EXCEPT !.total_cost = c] : c \in 0 .. MaxCost}

\* objective vectors a calculate_MO_objectives callback can return
ObjectiveVectors ==
  {<<a>> : a \in 0 .. MaxObjective} \cup
  {<<a, b>> : a \in 0 .. MaxObjective, b \in 0 .. MaxObjective}

\* chromosomes after finalize_objectives in multi-objective mode
EvaluatedMO == {[ChromosomeType(0) EXCEPT !.objectives = o] : o \in ObjectiveVectors}

\* an engine in the middle of solve_init, sequential, without seeds
InitMidSolveInit ==
  /\ elite_count = 0
  /\ crossover_fraction = 10
  /\ mutation_rate = 1
  /\ generation_max = 1
  /\ average_stall_max = MaxStall
  /\ best_stall_max = MaxStall
  /\ multi_threading = FALSE
  /\ dynamic_threading = TRUE
  /\ N_threads = 1
  /\ user_initial_solutions = <<>>
  /\ callbacks = RequiredCallbacks(problem_mode)
  /\ fitness_constant = FALSE
  /\ user_request_stop = FALSE
  /\ generation_step = 0
  /\ average_stall_count = 0
  /\ best_stall_count = 0
  /\ generations_so_abs = <<>>
  /\ last_generation = GenerationType
  /\ reference_vectors = <<>>
  /\ ideal_objectives = <<>>
  /\ x_index = 0
  /\ N_add = 0
  /\ stop = "Undefined"
  /\ error = ""
  /\ rejected_genes = {}
  /\ thread_pool = <<>>
  /\ active_threads = <<>>
  /\ action_at = "outside"
  /\ offset = 0
  /\ thread_i = 0
  /\ x_index_start = 0
  /\ launched = <<>>
  /\ reports = <<>>
  /\ evaluated = TRUE
  /\ DefaultMatrix({FALSE})
  /\ NoSelection

\* rank_population(generation0) in SOGA and IGA mode
InitRankSO ==
  /\ problem_mode \in {"SOGA", "IGA"}
  /\ use_quick_sort \in BOOLEAN
  /\ \E chromosomes \in SeqsUpTo(EvaluatedSO, MaxRanked) :
       /\ new_generation = [GenerationType EXCEPT !.chromosomes = chromosomes]
       /\ population = Len(chromosomes)
  /\ N_robj = 0
  /\ reference_vector_divisions = 0
  /\ pc = "rank_population"
  /\ enable_reference_vectors = TRUE
  /\ InitMidSolveInit

\* rank_population(generation0) in NSGA_III mode; solve_init has passed
\* calculate_N_robj, so the first objective vector has two components
InitRankMO ==
  /\ problem_mode = "NSGA_III"
  /\ use_quick_sort = TRUE
  /\ \E chromosomes \in SeqsUpTo(EvaluatedMO, MaxFronted) :
       /\ Len(chromosomes[1].objectives) = 2
       /\ new_generation = [GenerationType EXCEPT !.chromosomes = chromosomes]
       /\ population = Len(chromosomes)
  /\ N_robj = 2
  /\ reference_vector_divisions = AutoDivisions(2, 2)
  /\ pc = "rank_population"
  /\ enable_reference_vectors = TRUE
  /\ InitMidSolveInit

\* generate_referenceVectors(dept, N_division)
InitReferenceVectors ==
  /\ problem_mode = "NSGA_III"
  /\ use_quick_sort = TRUE
  /\ new_generation = GenerationType
  /\ population = 1
  /\ N_robj \in -1 .. MaxDept
  /\ reference_vector_divisions \in 1 .. MaxDivision
  /\ pc = "generate_referenceVectors"
  /\ enable_reference_vectors = TRUE
  /\ InitMidSolveInit

\* solve_init after init_population in NSGA_III mode, with
\* reference_vector_divisions = 0: generation0 holds population chromosomes
InitAutoDivisions ==
  /\ problem_mode = "NSGA_III"
  /\ use_quick_sort = TRUE
  /\ population \in 1 .. MaxAutoPop
  /\ \E g \in Genes :
       new_generation =
         [GenerationType EXCEPT !.chromosomes = [i \in 1 .. population |-> ChromosomeType(g)]]
  /\ N_robj = 0
  /\ reference_vector_divisions = 0
  /\ pc = "finalize_objectives"
  /\ enable_reference_vectors = TRUE
  /\ InitMidSolveInit

InitCalls == InitRankSO \/ InitRankMO \/ InitReferenceVectors \/ InitAutoDivisions

\* reference_vectors = generate_referenceVectors(dept, N_division)
GenerateReferenceVectors ==
  /\ pc = "generate_referenceVectors"
  /\ IF generate_referenceVectors_error(N_robj) # ""
     THEN /\ Raise(generate_referenceVectors_error(N_robj))
          /\ UNCHANGED reference_vectors
     ELSE /\ reference_vectors' = generate_referenceVectors(N_robj, reference_vector_divisions)
          /\ pc' = "returned"
          /\ error' = error
  /\ UNCHANGED <<settings, matrix_vars, niching_vars, thread_vars, N_robj, reference_vector_divisions, ideal_objectives,
                 user_request_stop, generation_step, average_stall_count,
                 best_stall_count, generations_so_abs, last_generation,
                 new_generation, x_index, N_add, stop, reports, evaluated>>

NextCalls ==
  \/ FinalizeObjectives
  \/ RankPopulation
  \/ FinalizeGeneration
  \/ History
  \/ GenerateReferenceVectors

SpecCalls == InitCalls /\ [][NextCalls]_vars

(***************************************************************************)
(* The thread actions step by step.  sequential_action, dynamic_thread_    *)
(* action and static_thread_action run init_population_range or            *)
(* crossover_and_mutation_range; thread_pool[0] is the call that           *)
(* sequential_action makes on the calling thread, thread_pool[i] for       *)
(* i >= 1 is the std::thread at position i - 1 of the pool.                *)
(***************************************************************************)
\* a default-constructed std::thread: not joinable, nothing running
NoThread ==
  [joinable |-> FALSE, running |-> FALSE, index_from |-> 0, index_to |-> -1,
   index |-> 0, evaluating |-> FALSE, X |-> DefaultGenes]

\* std::thread(action_function, this, &generation, from, to, ...): the range
\* function starts at index = from
Started(from, to) ==
  [joinable |-> TRUE, running |-> TRUE, index_from |-> from, index_to |-> to,
   index |-> from, evaluating |-> FALSE, X |-> DefaultGenes]

\* an eval_solution that accepts every candidate
eval_solution_always(X) == TRUE

\* the user's eval_solution / eval_solution_IGA: the acceptance condition is
\* a property of the genes
eval_solution(X) == X \notin rejected_genes

\* every accepted candidate is appended
StoreAtAppend(generation, X, index) ==
  [generation EXCEPT !.chromosomes = Append(generation.chromosomes, X)]

\* the accepted candidate goes to chromosomes[index], or to the end of the
\* vector in IGA mode and for index < 0
StoreAt(generation, X, index) ==
  IF is_interactive \/ index < 0
  THEN [generation EXCEPT !.chromosomes = Append(generation.chromosomes, X)]
  ELSE [generation EXCEPT !.chromosomes[index + 1] = X]

\* a join() that does not wait
joined_at_once(i) == TRUE

\* thread_pool[i].join() returns once the thread function has returned
joined(i) == ~thread_pool[i].running

\* the scan for (i = 0; i < N_threads && free_thread < 0; i++): the first
\* position whose active flag is clear, 0 if there is none
free_thread ==
  IF \E i \in 1 .. N_threads : ~active_threads[i]
  THEN CHOOSE i \in 1 .. N_threads :
         ~active_threads[i] /\ \A k \in 1 .. i - 1 : active_threads[k]
  ELSE 0

\* the locals of the thread action are set up; the new slots were pre-filled
\* on entry, so offset is the size before the pre-fill
ThreadActionBegin ==
  /\ pc \in {"init_population", "variation"}
  /\ action_at = "outside"
  /\ thread_pool' = [i \in 0 .. N_threads |-> NoThread]
  /\ active_threads' = [i \in 1 .. N_threads |-> FALSE]
  /\ offset' = Len(new_generation.chromosomes) -
                 (IF Threading = "sequential" THEN 0 ELSE N_add)
  /\ x_index_start' = offset'
  /\ thread_i' = 0
  /\ launched' = <<>>
  /\ action_at' = CASE Threading = "sequential" -> "sequential"
                    [] Threading = "dynamic" -> "dispatch"
                    [] Threading = "static" -> "launch"
  /\ UNCHANGED <<settings, matrix_vars, niching_vars, mo_vars, user_request_stop, generation_step, average_stall_count,
                 best_stall_count, generations_so_abs, last_generation,
                 pc, new_generation, x_index, N_add, stop, error, reports, evaluated>>

\* sequential_action: (this->*action_function)(&generation, -1, -1, ...)
SequentialCall ==
  /\ action_at = "sequential"
  /\ ~thread_pool[0].running
  /\ x_index < N_add /\ ~user_request_stop
  /\ thread_pool' = [thread_pool EXCEPT ![0] = [Started(-1, -1) EXCEPT !.joinable = FALSE]]
  /\ UNCHANGED <<settings, matrix_vars, niching_vars, mo_vars, user_request_stop, generation_step, average_stall_count,
                 best_stall_count, generations_so_abs, last_generation,
                 pc, new_generation, x_index, N_add, stop, error, reports, evaluated,
                 active_threads, action_at, offset, thread_i, x_index_start, launched>>

\* init_population and crossover_and_mutation return to solve_init and
\* solve_next_generation; the locals of the thread action are gone
ActionReturn ==
  /\ pc' = "finalize_objectives"
  /\ generation_step' = IF pc = "init_population" THEN 0 ELSE generation_step
  /\ x_index' = 0
  /\ N_add' = 0
  /\ thread_pool' = <<>>
  /\ active_threads' = <<>>
  /\ action_at' = "outside"
  /\ offset' = 0
  /\ thread_i' = 0
  /\ x_index_start' = 0
  /\ launched' = <<>>
  /\ UNCHANGED <<settings, matrix_vars, niching_vars, mo_vars, user_request_stop, average_stall_count,
                 best_stall_count, generations_so_abs, last_generation,
                 new_generation, stop, error, reports, evaluated>>

\* the loop of sequential_action ends
SequentialReturn ==
  /\ action_at = "sequential"
  /\ ~thread_pool[0].running
  /\ ~(x_index < N_add /\ ~user_request_stop)
  /\ ActionReturn

\* dynamic_thread_action: a free position is joined and given slot
\* offset + x_index
DynamicLaunch ==
  /\ action_at = "dispatch"
  /\ x_index < N_add /\ ~user_request_stop
  /\ free_thread > 0
  /\ thread_pool[free_thread].joinable => joined(free_thread)
  /\ active_threads' = [active_threads EXCEPT ![free_thread] = TRUE]
  /\ thread_pool' = [thread_pool EXCEPT ![free_thread] = Started(offset + x_index, offset + x_index)]
  /\ launched' = Append(launched, [thread |-> free_thread, index_from |-> offset + x_index,
                                   index_to |-> offset + x_index])
  /\ x_index' = x_index + 1
  /\ UNCHANGED <<settings, matrix_vars, niching_vars, mo_vars, user_request_stop, generation_step, average_stall_count,
                 best_stall_count, generations_so_abs, last_generation,
                 pc, new_generation, N_add, stop, error, reports, evaluated,
                 action_at, offset, thread_i, x_index_start>>

\* the while loop of dynamic_thread_action ends
DynamicDispatched ==
  /\ action_at = "dispatch"
  /\ ~(x_index < N_add /\ ~user_request_stop)
  /\ action_at' = "wait"
  /\ UNCHANGED <<settings, matrix_vars, niching_vars, mo_vars, user_request_stop, generation_step, average_stall_count,
                 best_stall_count, generations_so_abs, last_generation,
                 pc, new_generation, x_index, N_add, stop, error, reports, evaluated,
                 thread_pool, active_threads, offset, thread_i, x_index_start, launched>>

\* static_thread_action: one iteration of for (i = 0; i < N_threads; i++)
StaticLaunch ==
  /\ action_at = "launch"
  /\ thread_i < N_threads
  /\ LET size == Len(new_generation.chromosomes)
         pop_chunk == Max(N_add \div N_threads, 1)
         x_index_end == IF thread_i + 1 = N_threads THEN size - 1
                        ELSE Min(x_index_start + pop_chunk - 1, size - 1)
     IN /\ IF x_index_end >= x_index_start
           THEN /\ active_threads' = [active_threads EXCEPT ![thread_i + 1] = TRUE]
                /\ thread_pool' = [thread_pool EXCEPT ![thread_i + 1] = Started(x_index_start, x_index_end)]
                /\ launched' = Append(launched, [thread |-> thread_i + 1, index_from |-> x_index_start,
                                                 index_to |-> x_index_end])
           ELSE UNCHANGED <<active_threads, thread_pool, launched>>
        /\ x_index_start' = x_index_end + 1
  /\ thread_i' = thread_i + 1
  /\ UNCHANGED <<settings, matrix_vars, niching_vars, mo_vars, user_request_stop, generation_step, average_stall_count,
                 best_stall_count, generations_so_abs, last_generation,
                 pc, new_generation, x_index, N_add, stop, error, reports, evaluated,
                 action_at, offset>>

\* the for loop of static_thread_action ends
StaticLaunched ==
  /\ action_at = "launch"
  /\ thread_i = N_threads
  /\ action_at' = "wait"
  /\ UNCHANGED <<settings, matrix_vars, niching_vars, mo_vars, user_request_stop, generation_step, average_stall_count,
                 best_stall_count, generations_so_abs, last_generation,
                 pc, new_generation, x_index, N_add, stop, error, reports, evaluated,
                 thread_pool, active_threads, offset, thread_i, x_index_start, launched>>

\* init_population_range and crossover_and_mutation_range on thread t: a
\* candidate is drawn (in variation from two different parents, the pair is
\* redrawn while they are equal) and handed to the evaluation callback
RangeEvalCall(t) ==
  /\ thread_pool[t].running
  /\ ~thread_pool[t].evaluating
  /\ thread_pool[t].index <= thread_pool[t].index_to
  /\ pc = "variation" =>
       \E pidx_c1, pidx_c2 \in select_parent(last_generation) :
         /\ pidx_c1 # pidx_c2
         /\ pidx_c1 < Len(last_generation.chromosomes)
         /\ pidx_c2 < Len(last_generation.chromosomes)
  /\ \E g \in Genes :
       thread_pool' = [thread_pool EXCEPT ![t].evaluating = TRUE, ![t].X = g]
  /\ evaluated' = TRUE
  /\ UNCHANGED <<settings, matrix_vars, niching_vars, mo_vars, user_request_stop, generation_step, average_stall_count,
                 best_stall_count, generations_so_abs, last_generation,
                 pc, new_generation, x_index, N_add, stop, error, reports,
                 active_threads, action_at, offset, thread_i, x_index_start, launched>>

\* the evaluation callback returns: an accepted candidate is stored and the
\* loop goes to the next index (init_population_range clears the active flag
\* here, inside its for loop), a rejected one is redrawn
RangeEvalReturn(t) ==
  /\ thread_pool[t].evaluating
  /\ IF eval_solution(thread_pool[t].X)
     THEN /\ new_generation' =
               StoreAt(new_generation, ChromosomeType(thread_pool[t].X), thread_pool[t].index)
          /\ thread_pool' = [thread_pool EXCEPT ![t].evaluating = FALSE,
                                                ![t].index = thread_pool[t].index + 1]
          /\ active_threads' = IF pc = "init_population" /\ t >= 1
                               THEN [active_threads EXCEPT ![t] = FALSE]
                               ELSE active_threads
     ELSE /\ thread_pool' = [thread_pool EXCEPT ![t].evaluating = FALSE]
          /\ UNCHANGED <<new_generation, active_threads>>
  /\ UNCHANGED <<settings, matrix_vars, niching_vars, mo_vars, user_request_stop, generation_step, average_stall_count,
                 best_stall_count, generations_so_abs, last_generation,
                 pc, x_index, N_add, stop, error, reports, evaluated,
                 action_at, offset, thread_i, x_index_start, launched>>

\* the range function returns (crossover_and_mutation_range clears the
\* active flag here); on the calling thread sequential_action goes to i + 1
RangeReturn(t) ==
  /\ thread_pool[t].running
  /\ ~thread_pool[t].evaluating
  /\ thread_pool[t].index > thread_pool[t].index_to
  /\ thread_pool' = [thread_pool EXCEPT ![t].running = FALSE]
  /\ active_threads' = IF pc = "variation" /\ t >= 1
                       THEN [active_threads EXCEPT ![t] = FALSE]
                       ELSE active_threads
  /\ x_index' = IF t = 0 THEN x_index + 1 ELSE x_index
  /\ UNCHANGED <<settings, matrix_vars, niching_vars, mo_vars, user_request_stop, generation_step, average_stall_count,
                 best_stall_count, generations_so_abs, last_generation,
                 pc, new_generation, N_add, stop, error, reports, evaluated,
                 action_at, offset, thread_i, x_index_start, launched>>

WorkerEvalCall == \E t \in DOMAIN thread_pool : RangeEvalCall(t)
WorkerEvalReturn == \E t \in DOMAIN thread_pool : RangeEvalReturn(t)
WorkerReturn == \E t \in DOMAIN thread_pool : RangeReturn(t)

\* do { ... } while (!all_tasks_finished): every active flag is clear
AllTasksFinished ==
  /\ action_at = "wait"
  /\ \A i \in 1 .. N_threads : ~active_threads[i]
  /\ action_at' = "join"
  /\ UNCHANGED <<settings, matrix_vars, niching_vars, mo_vars, user_request_stop, generation_step, average_stall_count,
                 best_stall_count, generations_so_abs, last_generation,
                 pc, new_generation, x_index, N_add, stop, error, reports, evaluated,
                 thread_pool, active_threads, offset, thread_i, x_index_start, launched>>

\* for (std::thread& th : thread_pool) if (th.joinable()) th.join();
JoinAll ==
  /\ action_at = "join"
  /\ \A i \in 1 .. N_threads : thread_pool[i].joinable => joined(i)
  /\ ActionReturn

NextWorkers ==
  \/ SolveInit
  \/ ThreadActionBegin
  \/ SequentialCall
  \/ SequentialReturn
  \/ DynamicLaunch
  \/ DynamicDispatched
  \/ StaticLaunch
  \/ StaticLaunched
  \/ WorkerEvalCall
  \/ WorkerEvalReturn
  \/ WorkerReturn
  \/ AllTasksFinished
  \/ JoinAll
  \/ FinalizeObjectives
  \/ RankPopulation
  \/ SelectPopulation
  \/ RankSelected
  \/ FinalizeGeneration
  \/ History
  \/ SolveInitReturn
  \/ NextGeneration
  \/ CrossoverAndMutation
  \/ StopCritera
  \/ StopCriteraCrash
  \/ UserRequestStop

\* the settings of the runs that follow the threads step by step
WorkerSettings(populations) ==
  /\ problem_mode \in GaMode
  /\ population \in populations
  /\ elite_count \in {0, 1}
  /\ crossover_fraction = 10
  /\ mutation_rate = 1
  /\ generation_max = 1
  /\ average_stall_max = MaxStall
  /\ best_stall_max = MaxStall
  /\ \E t \in {Sequential, DynamicPool, StaticPool} :
       multi_threading = t[1] /\ dynamic_threading = t[2]
  /\ N_threads = 2
  /\ user_initial_solutions = <<>>
  /\ callbacks = RequiredCallbacks(problem_mode)
  /\ fitness_constant = FALSE
  /\ use_quick_sort = TRUE
  /\ rejected_genes = {MaxGene}

\* a freshly constructed engine with two threads, in every mode and with
\* every threading strategy; eval_solution rejects the last gene
InitWorkers ==
  /\ WorkerSettings({MaxPop})
  /\ InitEngine

SpecWorkers == InitWorkers /\ [][NextWorkers]_vars

(***************************************************************************)
(* init_population and crossover_and_mutation on their own, from a fresh   *)
(* engine and from an engine that has completed generation 0               *)
(***************************************************************************)
\* solve() is about to call solve_init
InitBeforeInitPopulation ==
  /\ WorkerSettings(2 .. MaxSlots)
  /\ InitEngine

\* solve_next_generation is about to call crossover_and_mutation for
\* generation 1; generation 0 holds population chromosomes with gene 0
InitBeforeVariation ==
  /\ WorkerSettings(2 .. MaxSlots)
  /\ user_request_stop = FALSE
  /\ generation_step = 1
  /\ average_stall_count = 0
  /\ best_stall_count = 0
  /\ \E ranked \in rank_population(finalize_objectives_body(
                     [GenerationType EXCEPT !.chromosomes =
                        [i \in 1 .. population |-> ChromosomeType(0)]])) :
       last_generation = finalize_generation(ranked)
  /\ generations_so_abs = <<GenerationTypeSOAbstract(last_generation)>>
  /\ N_robj = IF is_single_objective THEN 0 ELSE 2
  /\ reference_vector_divisions = IF is_single_objective THEN 0 ELSE AutoDivisions(2, 2)
  /\ reference_vectors = <<>>
  /\ ideal_objectives = IF is_single_objective THEN <<>> ELSE calculate_MO_objectives(ChromosomeType(0))
  /\ pc = "crossover_and_mutation"
  /\ new_generation = transfer(GenerationType)
  /\ x_index = 0
  /\ N_add = 0
  /\ stop = "Undefined"
  /\ error = ""
  /\ thread_pool = <<>>
  /\ active_threads = <<>>
  /\ action_at = "outside"
  /\ offset = 0
  /\ thread_i = 0
  /\ x_index_start = 0
  /\ reports = <<0>>
  /\ evaluated = TRUE
  /\ launched = <<>>
  /\ DefaultMatrix({FALSE})
  /\ enable_reference_vectors = TRUE
  /\ NoSelection

InitActions == InitBeforeInitPopulation \/ InitBeforeVariation

NextActions ==
  \/ SolveInit
  \/ CrossoverAndMutation
  \/ ThreadActionBegin
  \/ SequentialCall
  \/ SequentialReturn
  \/ DynamicLaunch
  \/ DynamicDispatched
  \/ StaticLaunch
  \/ StaticLaunched
  \/ WorkerEvalCall
  \/ WorkerEvalReturn
  \/ WorkerReturn
  \/ AllTasksFinished
  \/ JoinAll
  \/ UserRequestStop

SpecActions == InitActions /\ [][NextActions]_vars

(***************************************************************************)
(* solve() left alone: valid settings, nobody sets user_request_stop, every*)
(* step that can be taken is eventually taken                              *)
(***************************************************************************)
\* settings that pass check_settings and the checks of
\* crossover_and_mutation
InitLive ==
  /\ InitEngine
  /\ Settings(GaMode, {10}, {1}, {1}, {MaxStall}, {MaxStall},
              {Sequential}, {<<>>}, {FALSE})
  /\ check_settings = ""
  /\ crossover_and_mutation_error = ""

NextLive ==
  \/ SolveInit
  \/ InitPopulationSlot
  \/ InitPopulationDone
  \/ FinalizeObjectives
  \/ RankPopulation
  \/ SelectPopulation
  \/ RankSelected
  \/ FinalizeGeneration
  \/ History
  \/ SolveInitReturn
  \/ NextGeneration
  \/ CrossoverAndMutation
  \/ VariationSlot
  \/ VariationDone
  \/ StopCritera

SpecLive == InitLive /\ [][NextLive]_vars /\ WF_vars(NextLive)

(***************************************************************************)
(* Matrix (Matrix.hpp): row-major storage of n_rows * n_cols elements.     *)
(* Element (row, col) is data[row * n_cols + col]; data is a 1-based       *)
(* sequence here, so it is data[row * n_cols + col + 1].  A member call    *)
(* ends "ok", with a failed assert (builds without NDEBUG), or with an     *)
(* access outside data or outside an argument vector, which is undefined   *)
(* behaviour: outcome = "undefined" says that nothing is known about the   *)
(* object any more, and no further call is followed.                       *)
(***************************************************************************)
\* the values of the elements
Elements == 0 .. MaxElement
Dims == 0 .. MaxDim

\* std::vector<T>(n): n value-initialized elements
Zeros(n) == [k \in 1 .. n |-> 0]
\* the vectors of length l
Vectors(l) == [1 .. l -> Elements]
AnyVector == UNION {Vectors(l) : l \in Dims}

\* the row {1, 2, 3, ...} cut to l entries, as element values
Counting(l) == [j \in 1 .. l |-> j % (MaxElement + 1)]
\* std::vector<std::vector<T>>: up to MaxDim rows, each of any length up to
\* MaxDim
RowLists == UNION {[1 .. k -> {Counting(l) : l \in Dims}] : k \in Dims}

\* operator()(row, col) with col * n_cols + row
ElementIndexByColumn(cols, row, col) == col * cols + row

\* operator()(row, col): data[row * n_cols + col]
ElementIndex(cols, row, col) == row * cols + col

\* the positions of row row_idx and of column col_idx, in loop order
RowPositions(cols, row_idx) == [i \in 1 .. cols |-> ElementIndex(cols, row_idx, i - 1)]
ColPositions(rows, cols, col_idx) == [i \in 1 .. rows |-> ElementIndex(cols, i - 1, col_idx)]
\* the positions print() reads: every (i, j), row by row
AllPositions(rows, cols) ==
  [k \in 1 .. rows * cols |-> ElementIndex(cols, (k - 1) \div cols, (k - 1) % cols)]

\* some access of the loop is outside d, or outside the argument vector v
OutOfRange(d, pos, v) ==
  \/ Len(v) < Len(pos)
  \/ \E i \in 1 .. Len(pos) : pos[i] >= Len(d)

\* d after d[pos[i]] = v[i] for i = 1, 2, ... in this order
Stored(d, pos, v) ==
  [k \in 1 .. Len(d) |->
     LET hits == {i \in 1 .. Len(pos) : pos[i] = k - 1}
     IN  IF hits = {} THEN d[k]
         ELSE v[CHOOSE i \in hits : \A j \in hits : j <= i]]

\* the vector of d[pos[i]]
Loaded(d, pos) == [i \in 1 .. Len(pos) |-> d[pos[i] + 1]]

\* data.resize(n): the old elements, then zeros
Resized(d, n) == [k \in 1 .. n |-> IF k <= Len(d) THEN d[k] ELSE 0]

\* bool empty()
empty == data = <<>>

engine_vars ==
  <<settings, mo_vars, thread_vars, niching_vars, user_request_stop, generation_step,
    average_stall_count, best_stall_count, generations_so_abs, last_generation,
    pc, new_generation, x_index, N_add, stop, error, reports, evaluated>>

\* m = Matrix(rows, cols)
Matrix(rows, cols) ==
  /\ outcome = "ok"
  /\ n_rows' = rows
  /\ n_cols' = cols
  /\ data' = Zeros(rows * cols)
  /\ last_call' = Then(Call("Matrix", 0, <<rows, cols>>))
  /\ out' = <<>>
  /\ UNCHANGED <<engine_vars, NDEBUG, outcome>>

\* void zeros(): std::fill(data.begin(), data.end(), T{})
zeros ==
  /\ outcome = "ok"
  /\ data' = Zeros(Len(data))
  /\ last_call' = Then(Call("zeros", 0, <<>>))
  /\ out' = <<>>
  /\ UNCHANGED <<engine_vars, n_rows, n_cols, NDEBUG, outcome>>

\* void zeros(unsigned int rows, unsigned int cols)
zeros_rc(rows, cols) ==
  /\ outcome = "ok"
  /\ n_rows' = rows
  /\ n_cols' = cols
  /\ data' = Zeros(rows * cols)
  /\ last_call' = Then(Call("zeros_rc", 0, <<rows, cols>>))
  /\ out' = <<>>
  /\ UNCHANGED <<engine_vars, NDEBUG, outcome>>

\* void clear()
clear ==
  /\ outcome = "ok"
  /\ n_rows' = 0
  /\ n_cols' = 0
  /\ data' = <<>>
  /\ last_call' = Then(Call("clear", 0, <<>>))
  /\ out' = <<>>
  /\ UNCHANGED <<engine_vars, NDEBUG, outcome>>

\* the loop of set_col / set_row over the positions pos, after the assert
\* on the length of the argument
SetAll(pos, expected, v) ==
  IF ~NDEBUG /\ Len(v) # expected
  THEN outcome' = "assert" /\ UNCHANGED data
  ELSE IF OutOfRange(data, pos, v)
  THEN outcome' = "undefined" /\ UNCHANGED data
  ELSE outcome' = "ok" /\ data' = Stored(data, pos, v)

\* void set_col(unsigned int col_idx, const std::vector<T>& col_vector)
set_col(col_idx, col_vector) ==
  /\ outcome = "ok"
  /\ SetAll(ColPositions(n_rows, n_cols, col_idx), n_rows, col_vector)
  /\ last_call' = Then(Call("set_col", col_idx, col_vector))
  /\ out' = <<>>
  /\ UNCHANGED <<engine_vars, n_rows, n_cols, NDEBUG>>

\* void set_row(unsigned int row_idx, const std::vector<T>& row_vector)
set_row(row_idx, row_vector) ==
  /\ outcome = "ok"
  /\ SetAll(RowPositions(n_cols, row_idx), n_cols, row_vector)
  /\ last_call' = Then(Call("set_row", row_idx, row_vector))
  /\ out' = <<>>
  /\ UNCHANGED <<engine_vars, n_rows, n_cols, NDEBUG>>

\* the loop of get_col / get_row: the vector is resized to the number of
\* positions, then filled; a read outside data gives any values
GetAll(pos) ==
  IF OutOfRange(data, pos, pos)
  THEN outcome' = "undefined" /\ out' \in Vectors(Len(pos))
  ELSE outcome' = "ok" /\ out' = Loaded(data, pos)

\* void get_col(unsigned int col_idx, std::vector<T>& col_vector) const
get_col(col_idx) ==
  /\ outcome = "ok"
  /\ GetAll(ColPositions(n_rows, n_cols, col_idx))
  /\ last_call' = Then(Call("get_col", col_idx, <<>>))
  /\ UNCHANGED <<engine_vars, n_rows, n_cols, data, NDEBUG>>

\* void get_row(unsigned int row_idx, std::vector<T>& row_vector) const
get_row(row_idx) ==
  /\ outcome = "ok"
  /\ GetAll(RowPositions(n_cols, row_idx))
  /\ last_call' = Then(Call("get_row", row_idx, <<>>))
  /\ UNCHANGED <<engine_vars, n_rows, n_cols, data, NDEBUG>>

\* the first row of A (1-based) that has not A_cols entries when the assert
\* is compiled in, that has fewer than A_cols entries when it is not; 0 if
\* there is none
FirstBadRow(A, A_cols, release) ==
  LET bad == {i \in 1 .. Len(A) :
                IF release THEN Len(A[i]) < A_cols ELSE Len(A[i]) # A_cols}
  IN  IF bad = {} THEN 0 ELSE CHOOSE i \in bad : \A j \in bad : i <= j

\* data after the rows before row number stop_row (1-based) have been
\* copied; stop_row = 0 copies all rows
Copied(d, A, A_cols, stop_row) ==
  [k \in 1 .. Len(d) |->
     LET i == (k - 1) \div A_cols + 1
         j == ((k - 1) % A_cols) + 1
     IN  IF stop_row = 0 \/ i < stop_row THEN A[i][j] ELSE d[k]]

\* void operator=(const std::vector<std::vector<T>>& A)
Assign(A) ==
  /\ outcome = "ok"
  /\ LET A_rows == Len(A)
         A_cols == IF A_rows > 0 THEN Len(A[1]) ELSE 0
         bad == FirstBadRow(A, A_cols, NDEBUG)
     IN  /\ n_rows' = A_rows
         /\ n_cols' = A_cols
         /\ IF A_rows > 0 /\ A_cols > 0
            THEN /\ data' = Copied(Resized(data, A_rows * A_cols), A, A_cols, bad)
                 /\ outcome' = IF bad = 0 THEN "ok"
                               ELSE IF NDEBUG THEN "undefined" ELSE "assert"
            ELSE /\ data' = <<>>
                 /\ outcome' = "ok"
         /\ last_call' = Then(Call("operator=", A_rows, [i \in 1 .. A_rows |-> Len(A[i])]))
  /\ out' = <<>>
  /\ UNCHANGED <<engine_vars, NDEBUG>>

\* void print(): reads every element, then data.clear()
print ==
  /\ outcome = "ok"
  /\ outcome' = IF OutOfRange(data, AllPositions(n_rows, n_cols), data)
                THEN "undefined" ELSE "ok"
  /\ data' = <<>>
  /\ last_call' = Then(Call("print", 0, <<>>))
  /\ out' = <<>>
  /\ UNCHANGED <<engine_vars, n_rows, n_cols, NDEBUG>>

\* m(row, col) = x through double& operator()(row, col)
ElementWrite(row, col, x) ==
  /\ outcome = "ok"
  /\ IF ElementIndex(n_cols, row, col) >= Len(data)
     THEN outcome' = "undefined" /\ UNCHANGED data
     ELSE /\ outcome' = "ok"
          /\ data' = [data EXCEPT ![ElementIndex(n_cols, row, col) + 1] = x]
  /\ last_call' = Then(Call("operator()", row, <<col, x>>))
  /\ out' = <<>>
  /\ UNCHANGED <<engine_vars, n_rows, n_cols, NDEBUG>>

\* x = m(row, col) through double operator()(row, col) const: the value
\* read is handed to the caller in out; a read outside data gives any value
ElementRead(row, col) ==
  /\ outcome = "ok"
  /\ IF ElementIndex(n_cols, row, col) >= Len(data)
     THEN outcome' = "undefined" /\ out' \in Vectors(1)
     ELSE /\ outcome' = "ok"
          /\ out' = <<data[ElementIndex(n_cols, row, col) + 1]>>
  /\ last_call' = Then(Call("operator() const", row, <<col>>))
  /\ UNCHANGED <<engine_vars, n_rows, n_cols, data, NDEBUG>>

\* a default-constructed Matrix in a debug or a release build, next to an
\* engine that is not running
InitMatrix ==
  /\ Settings({"SOGA"}, {10}, {1}, {1}, {MaxStall}, {MaxStall}, {Sequential}, {<<>>}, {FALSE})
  /\ population = 1
  /\ elite_count = 0
  /\ InitEngineMembers
  /\ DefaultMatrix(BOOLEAN)

NextMatrix ==
  \/ \E rows \in Dims, cols \in Dims : Matrix(rows, cols)
  \/ zeros
  \/ \E rows \in Dims, cols \in Dims : zeros_rc(rows, cols)
  \/ clear
  \/ \E col_idx \in Dims, col_vector \in AnyVector : set_col(col_idx, col_vector)
  \/ \E row_idx \in Dims, row_vector \in AnyVector : set_row(row_idx, row_vector)
  \/ \E col_idx \in Dims : get_col(col_idx)
  \/ \E row_idx \in Dims : get_row(row_idx)
  \/ \E A \in RowLists : Assign(A)
  \/ print
  \/ \E row \in Dims, col \in Dims, x \in Elements : ElementWrite(row, col, x)
  \/ \E row \in Dims, col \in Dims : ElementRead(row, col)

SpecMatrix == InitMatrix /\ [][NextMatrix]_vars

(***************************************************************************)
(* select_population_MO, statement by statement.  The call is made by      *)
(* solve_next_generation of generation 1 on the ranked combined            *)
(* generation: the population chromosomes of generation 0 followed by the  *)
(* round(population * crossover_fraction) offspring.  The perpendicular    *)
(* distances are the result of floating-point arithmetic (scalarize,       *)
(* intercepts, normalisation, square roots); here each distance is one of  *)
(* MaxDistance + 1 ordered values and every matrix of them is allowed.     *)
(***************************************************************************)
MaxNicheObjective == 1
MaxDistance == 1

\* chromosomes with two objectives after finalize_objectives
EvaluatedTwoObjectives ==
  {[ChromosomeType(0) EXCEPT !.objectives = <<a, b>>] :
     a \in 0 .. MaxNicheObjective, b \in 0 .. MaxNicheObjective}

\* Matrix<double> distances(N_x, N_ref), row: pop, col: ref_vec
DistanceMatrices(N_x, N_ref) ==
  [1 .. N_x -> [1 .. N_ref -> 0 .. MaxDistance]]

\* distances(i, j)
Distance(i, j) == distances[i + 1][j + 1]

\* std::min_element: the index of the first smallest element
index_of_min(v) ==
  CHOOSE k \in 0 .. Len(v) - 1 :
    /\ \A m \in 0 .. Len(v) - 1 : v[k + 1] <= v[m + 1]
    /\ \A m \in 0 .. k - 1 : v[m + 1] > v[k + 1]

\* associated_ref_vector of associate_to_references: for every chromosome of
\* gen the first reference vector at the smallest distance
AssociatedRefVector(D) == [i \in 1 .. Len(D) |-> index_of_min(D[i])]

\* niche_count of associate_to_references: niche_count.assign(N_ref, 0), then
\* niche_count[dist_min_index]++ for every chromosome i of gen
NicheCount(assoc, N_ref) ==
  [j \in 1 .. N_ref |-> Cardinality({i \in 1 .. Len(assoc) : assoc[i] = j - 1})]

\* min_vec_neighbors: the members of last_front associated with
\* min_niche_index, in the order of last_front
RECURSIVE MinVecNeighbors(_, _)
MinVecNeighbors(front, min_niche_index) ==
  IF front = <<>> THEN <<>>
  ELSE (IF associated_ref_vector[front[1] + 1] = min_niche_index
        THEN <<front[1]>> ELSE <<>>) \o MinVecNeighbors(Tail(front), min_niche_index)

\* the loop of the branch niche_count[min_niche_index] == 0: the value of
\* next_member_index after the neighbours from position k on (1-based)
RECURSIVE NextMemberIndex(_, _, _, _, _)
NextMemberIndex(neighbors, k, min_niche_index, next_member_index, min_val) ==
  IF k > Len(neighbors) THEN next_member_index
  ELSE LET i == neighbors[k]
       IN IF Distance(i, min_niche_index) < min_val
          THEN NextMemberIndex(neighbors, k + 1, min_niche_index, i, Distance(i, min_niche_index))
          ELSE NextMemberIndex(neighbors, k + 1, min_niche_index, next_member_index, min_val)

\* a last_front from which nothing is erased
ErasedNothing(front, to_add_index) == front

RECURSIVE Erased(_, _)
\* last_front after the erase of the element equal to to_add_index
Erased(front, to_add_index) ==
  IF front = <<>> THEN <<>>
  ELSE IF front[1] = to_add_index THEN Tail(front)
  ELSE <<front[1]>> \o Erased(Tail(front), to_add_index)

\* last_front.erase(last_front.begin() + to_add_index)
ErasedAt(front, to_add_index) ==
  SubSeq(front, 1, to_add_index) \o SubSeq(front, to_add_index + 2, Len(front))

\* solve_next_generation of generation 1 is about to call select_population
InitSelectMO ==
  /\ Settings({"NSGA_III"}, {5, 10}, {1}, {2}, {MaxStall}, {MaxStall}, {Sequential}, {<<>>}, {FALSE})
  /\ elite_count = 0
  /\ enable_reference_vectors \in BOOLEAN
  /\ user_request_stop = FALSE
  /\ generation_step = 1
  /\ average_stall_count = 0
  /\ best_stall_count = 0
  /\ \E chromosomes \in SeqsUpTo(EvaluatedTwoObjectives, MaxFronted) :
       /\ Len(chromosomes) = population + crossover_N_add
       /\ new_generation \in rank_population([GenerationType EXCEPT !.chromosomes = chromosomes])
       /\ \E ranked \in rank_population([GenerationType EXCEPT
                                          !.chromosomes = SubSeq(chromosomes, 1, population)]) :
            last_generation = finalize_generation(ranked)
  /\ generations_so_abs = <<GenerationTypeSOAbstract(last_generation)>>
  /\ N_robj = 2
  /\ reference_vector_divisions = AutoDivisions(2, 2)
  /\ reference_vectors = <<>>
  /\ ideal_objectives = update_ideal_objectives(last_generation, TRUE)
  /\ pc = "select_population_MO"
  /\ x_index = 0
  /\ N_add = 0
  /\ stop = "Undefined"
  /\ error = ""
  /\ thread_pool = <<>>
  /\ active_threads = <<>>
  /\ action_at = "outside"
  /\ offset = 0
  /\ thread_i = 0
  /\ x_index_start = 0
  /\ reports = <<0>>
  /\ evaluated = TRUE
  /\ launched = <<>>
  /\ DefaultMatrix({FALSE})
  /\ NoSelection

\* select_population_MO up to and including associate_to_references
AssociateToReferences ==
  /\ pc = "select_population_MO"
  /\ generation_step > 0
  /\ Len(new_generation.chromosomes) # population
  /\ ideal_objectives' = update_ideal_objectives(new_generation, FALSE)
  /\ reference_vectors' =
       IF reference_vectors = <<>>
       THEN generate_referenceVectors(Len(new_generation.chromosomes[1].objectives),
                                      reference_vector_divisions)
       ELSE reference_vectors
  /\ distances' \in DistanceMatrices(Len(new_generation.chromosomes), Len(reference_vectors'))
  /\ associated_ref_vector' = AssociatedRefVector(distances')
  /\ niche_count' = NicheCount(associated_ref_vector', Len(reference_vectors'))
  /\ pc' = "whole_fronts"
  /\ UNCHANGED <<settings, matrix_vars, thread_vars, enable_reference_vectors,
                 g2_chromosomes, last_front_members, to_add_indices,
                 N_robj, reference_vector_divisions, user_request_stop,
                 generation_step, average_stall_count, best_stall_count,
                 generations_so_abs, last_generation, new_generation,
                 x_index, N_add, stop, error, reports, evaluated>>

\* what the steps of the selection loops leave alone
selection_frame ==
  <<settings, matrix_vars, mo_vars, thread_vars, enable_reference_vectors,
    associated_ref_vector, distances, user_request_stop,
    generation_step, average_stall_count, best_stall_count,
    generations_so_abs, last_generation, new_generation,
    x_index, N_add, stop, error, reports, evaluated>>

\* the fronts that fit are copied whole; last_front is the first that does not
AdmitWholeFronts ==
  /\ pc = "whole_fronts"
  /\ LET res == WholeFronts(new_generation, <<>>, 0)
     IN /\ g2_chromosomes' = res[1]
        /\ last_front_members' = new_generation.fronts[res[2] + 1]
  /\ to_add_indices' = <<>>
  /\ pc' = "niching"
  /\ UNCHANGED <<selection_frame, niche_count>>

\* while (g2.chromosomes.size() + to_add.size() < population)
PlacesLeft == Len(g2_chromosomes) + Len(to_add_indices) < population

\* one iteration with enable_reference_vectors off: a random member of
\* last_front
RandomFill ==
  /\ pc = "niching"
  /\ PlacesLeft
  /\ ~enable_reference_vectors
  /\ \E to_add_index \in 0 .. Len(last_front_members) - 1 :
       /\ to_add_indices' = Append(to_add_indices, last_front_members[to_add_index + 1])
       /\ last_front_members' = ErasedAt(last_front_members, to_add_index)
  /\ UNCHANGED <<selection_frame, pc, g2_chromosomes, niche_count>>

\* one iteration in which the least crowded reference vector has no neighbour
\* in last_front: its niche_count becomes "inf"
MarkNiche ==
  /\ pc = "niching"
  /\ PlacesLeft
  /\ enable_reference_vectors
  /\ LET min_niche_index == index_of_min(niche_count)
     IN /\ MinVecNeighbors(last_front_members, min_niche_index) = <<>>
        /\ niche_count' = [niche_count EXCEPT ![min_niche_index + 1] =
                             10 * Len(new_generation.chromosomes)]
  /\ UNCHANGED <<selection_frame, pc, g2_chromosomes, last_front_members, to_add_indices>>

\* one iteration that adds a neighbour of the least crowded reference vector.
\* In the branch niche_count == 0 next_member_index receives a chromosome
\* index and is then used as a position in min_vec_neighbors; a position
\* past the end reads outside the vector, any index may come back.
PickNeighbor ==
  /\ pc = "niching"
  /\ PlacesLeft
  /\ enable_reference_vectors
  /\ LET min_niche_index == index_of_min(niche_count)
         min_vec_neighbors == MinVecNeighbors(last_front_members, min_niche_index)
         msz == Len(min_vec_neighbors)
     IN /\ min_vec_neighbors # <<>>
        /\ \E to_add_index \in 0 .. Len(new_generation.chromosomes) - 1 :
             /\ IF niche_count[min_niche_index + 1] = 0
                THEN LET next_member_index ==
                           NextMemberIndex(min_vec_neighbors, 1, min_niche_index, 0,
                                           Distance(min_vec_neighbors[1], min_niche_index))
                     IN next_member_index < msz =>
                          to_add_index = min_vec_neighbors[next_member_index + 1]
                ELSE \E next_member_index \in 0 .. msz - 1 :
                       to_add_index = min_vec_neighbors[next_member_index + 1]
             /\ to_add_indices' = Append(to_add_indices, to_add_index)
             /\ last_front_members' = Erased(last_front_members, to_add_index)
        /\ niche_count' = [niche_count EXCEPT ![min_niche_index + 1] = @ + 1]
  /\ UNCHANGED <<selection_frame, pc, g2_chromosomes>>

\* for (unsigned int i : to_add) g2.chromosomes.push_back(g.chromosomes[i])
CopyPicked ==
  /\ pc = "niching"
  /\ ~PlacesLeft
  /\ g2_chromosomes' = g2_chromosomes \o to_add_indices
  /\ pc' = "selected"
  /\ UNCHANGED <<selection_frame, last_front_members, to_add_indices, niche_count>>

NextSelectMO ==
  \/ AssociateToReferences
  \/ AdmitWholeFronts
  \/ RandomFill
  \/ MarkNiche
  \/ PickNeighbor
  \/ CopyPicked

\* every iteration of the loops is taken eventually: the code runs on
SpecSelectMO == InitSelectMO /\ [][NextSelectMO]_vars /\ WF_vars(NextSelectMO)

(***************************************************************************)
(* Properties                                                              *)
(***************************************************************************)
\* the generation of the current step went into generations_so_abs and was
\* reported
Completed == Len(reports) > 0 /\ reports[Len(reports)] = generation_step

\* C1: every completed generation (generation 0 and every later generation
\* that is pushed to generations_so_abs) holds exactly population
\* chromosomes, in every mode, also with accepted user_initial_solutions.
C1_CompletedGenerationHasPopulationSize ==
  (pc = "last_generation" /\ Completed) =>
    Len(new_generation.chromosomes) = population

C3_FlagBeforeEndMeansNotReported ==
  (pc = "last_generation" /\ user_request_stop) => ~Completed

\* C3 (amended): a generation for which user_request_stop is true at the
\* check that follows finalize_generation is abandoned (nothing is appended
\* to generations_so_abs, the report callback is not invoked); transfer,
\* crossover_and_mutation, finalize_objectives, rank_population,
\* select_population and finalize_generation called with the flag set leave
\* the generation as it is and evaluate nothing (after the skipped selection
\* the new generation is the empty selected generation).
C3_FlagAtCheckAbandonsGeneration ==
  [][user_request_stop =>
       /\ pc = "history" => (generations_so_abs' = generations_so_abs /\ reports' = reports)
       /\ pc = "solve_next_generation" => new_generation' = GenerationType
       /\ pc = "select_population" => new_generation' = GenerationType
       /\ pc \in {"crossover_and_mutation", "finalize_objectives", "rank_population",
                  "rank_selected", "finalize_generation"} =>
            (new_generation' = new_generation /\ evaluated' = evaluated)]_vars

C3_Witness ==
  /\ pc = "last_generation"
  /\ user_request_stop
  /\ generation_step = 2
  /\ reports = <<0, 1>>
  /\ Len(generations_so_abs) = 2

\* C4: after solve() returns with at least two generations completed, for
\* every stop reason, last_generation holds the final population: the
\* population ranked chromosomes of the last completed generation, whose
\* summary is the last entry of generations_so_abs.
C4_LastGenerationIsFinalPopulation ==
  (pc = "done" /\ Len(generations_so_abs) >= 2) =>
    /\ Len(last_generation.chromosomes) = population
    /\ Len(last_generation.selection_chance_cumulative) = population
    /\ Len(generations_so_abs) > 0
    /\ GenerationTypeSOAbstract(last_generation) = generations_so_abs[Len(generations_so_abs)]

\* C5: the stop decision after a generation returns the first condition that
\* holds, in the order generation_step >= generation_max, average stall,
\* best stall, user request, and Undefined only when none holds.
C5_StopDecisionInFixedOrder ==
  /\ pc = "done" => stop = StopDecision(best_stall_count, average_stall_count)
  /\ (pc = "solve_next_generation" /\ generation_step >= 1) =>
       /\ generation_step < generation_max
       /\ average_stall_count < average_stall_max
       /\ best_stall_count < best_stall_max

\* C6: solve() never executes a generation whose generation_step is greater
\* than generation_max.
C6_NoGenerationBeyondGenerationMax ==
  generation_step <= generation_max

RECURSIVE TrailingStalls(_, _, _)
\* the number of consecutive most recent neighbour comparisons in the
\* history that are below tolerance
TrailingStalls(history, n, of_best) ==
  IF n < 2 THEN 0
  ELSE IF (IF of_best THEN StallBestNow(history[n - 1], history[n])
           ELSE StallAverageNow(history[n - 1], history[n]))
  THEN 1 + TrailingStalls(history, n - 1, of_best)
  ELSE 0

\* C7: in SOGA/IGA mode without cancellation, after each completed
\* generation beyond the zeroth best_stall equals the number of consecutive most recent
\* generation-to-generation comparisons (starting with generation 0 versus 1)
\* that were below tol_stall_best, and average_stall likewise.
C7_StallCountsTrailingComparisons ==
  (/\ is_single_objective
   /\ ~user_request_stop
   /\ generation_step >= 1
   /\ pc \in {"solve_next_generation", "done"}) =>
    /\ best_stall_count =
         TrailingStalls(generations_so_abs, Len(generations_so_abs), TRUE)
    /\ average_stall_count =
         TrailingStalls(generations_so_abs, Len(generations_so_abs), FALSE)

\* the scenario of C8: constant fitness, equal stall maxima, generation_max
\* larger than best_stall_max + 1, no cancellation
ConstantFitnessRun ==
  /\ is_single_objective
  /\ fitness_constant
  /\ best_stall_max = average_stall_max
  /\ generation_max > best_stall_max + 1
  /\ ~user_request_stop

\* C8 (as stated): in that scenario solve() returns StallBest.
C8_ConstantFitnessGivesStallBest ==
  (pc = "done" /\ ConstantFitnessRun) => stop = "StallBest"

\* C8 (amended): in that scenario best_stall reaches best_stall_max at the
\* generation with generation_step = best_stall_max + 1, and solve() returns
\* StallAverage: the average cost is constant too and the average stall is
\* checked before the best stall.
C8_ConstantFitnessGivesStallAverage ==
  (pc = "done" /\ ConstantFitnessRun) =>
    /\ stop = "StallAverage"
    /\ best_stall_count = best_stall_max
    /\ generation_step = best_stall_max + 1

C8_Witness ==
  /\ pc = "done"
  /\ ConstantFitnessRun
  /\ stop = "StallAverage"
  /\ best_stall_count = best_stall_max
  /\ Len(generations_so_abs) = best_stall_max + 2

\* the mode table of the required and forbidden callbacks
IsSet(cb) == cb \in callbacks
AnySet(S) == \E cb \in S : IsSet(cb)
AnyUnset(S) == \E cb \in S : ~IsSet(cb)
ViolatesModeTable ==
  \/ AnyUnset({"init_genes", "mutate", "crossover"})
  \/ population < 1
  \/ N_threads < 1
  \/ /\ problem_mode = "SOGA"
     /\ \/ AnyUnset({"eval_solution", "calculate_SO_total_fitness", "SO_report_generation"})
        \/ AnySet({"calculate_MO_objectives", "distribution_objective_reductions",
                   "MO_report_generation", "eval_solution_IGA", "calculate_IGA_total_fitness"})
  \/ /\ problem_mode = "IGA"
     /\ \/ AnyUnset({"eval_solution_IGA", "calculate_IGA_total_fitness", "SO_report_generation"})
        \/ AnySet({"eval_solution", "calculate_SO_total_fitness", "calculate_MO_objectives",
                   "distribution_objective_reductions", "MO_report_generation"})
  \/ /\ problem_mode = "NSGA_III"
     /\ \/ AnyUnset({"eval_solution", "calculate_MO_objectives", "MO_report_generation"})
        \/ AnySet({"calculate_SO_total_fitness", "SO_report_generation",
                   "eval_solution_IGA", "calculate_IGA_total_fitness"})

\* C9: solve_init raises an error before creating or evaluating any
\* chromosome, leaving generation_step, generations_so_abs and
\* last_generation unchanged, if and only if the settings violate the mode
\* table.
C9_SolveInitRejectsExactlyModeTableViolations ==
  pc # "idle" =>
    /\ ViolatesModeTable <=> (pc = "error" /\ generation_step = -1)
    /\ ViolatesModeTable =>
         /\ ~evaluated
         /\ new_generation = GenerationType
         /\ generation_step = -1
         /\ generations_so_abs = <<>>
         /\ last_generation = GenerationType
         /\ reports = <<>>

C9_Witness ==
  /\ pc = "error"
  /\ problem_mode = "NSGA_III"
  /\ callbacks = RequiredCallbacks("NSGA_III") \cup {"SO_report_generation"}
  /\ error = "SO_report_generation is adjusted while problem mode is multi-objective"

\* C10: when solve() fails because crossover_fraction or mutation_rate is out
\* of range, or because elite_count + round(population * crossover_fraction)
\* differs from population in IGA mode, no chromosome has been evaluated, no
\* report callback has been invoked and generations_so_abs is empty.
C10_RejectedBeforeAnyGeneration ==
  (pc = "error" /\ error \in {"Wrong crossover fractoin", "Wrong mutation rate",
                              "In IGA mode, elite fraction + crossover fraction must be equal to 1.0 !"}) =>
    /\ ~evaluated
    /\ reports = <<>>
    /\ generations_so_abs = <<>>

\* generation t is in last_generation and the completed generation t + 1 in
\* new_generation
NextCompleted ==
  /\ pc = "last_generation"
  /\ generation_step >= 1
  /\ Completed
  /\ Len(reports) >= 2
  /\ reports[Len(reports) - 1] = generation_step - 1

\* C11 (as stated): in SOGA mode with 1 <= E <= P, the genes of each of the E
\* lowest-cost chromosomes of a completed generation t (sorted_indices[0..E))
\* are present in some chromosome of the completed generation t + 1.
C11_TopOfGenerationSurvives ==
  (NextCompleted /\ problem_mode = "SOGA" /\ elite_count >= 1 /\ elite_count <= population) =>
    \A i \in 1 .. elite_count :
      \E k \in 1 .. Len(new_generation.chromosomes) :
        new_generation.chromosomes[k].genes =
          last_generation.chromosomes[last_generation.sorted_indices[i] + 1].genes

\* C11 (amended): in SOGA mode with 1 <= E <= P, the first E chromosomes of
\* the selected generation are the chromosomes at sorted_indices[0..E) of the
\* ranked combined population (generation t plus the offspring), the E
\* lowest-cost chromosomes of that population.
C11_EliteSlotsHoldBestOfCombined ==
  [][(/\ pc = "select_population"
      /\ pc' = "rank_selected"
      /\ problem_mode = "SOGA"
      /\ ~user_request_stop
      /\ elite_count >= 1
      /\ elite_count <= population) =>
       \A i \in 1 .. elite_count :
         /\ new_generation'.chromosomes[i] =
              new_generation.chromosomes[new_generation.sorted_indices[i] + 1]
         /\ Cardinality({k \in 1 .. Len(new_generation.chromosomes) :
                           new_generation.chromosomes[k].total_cost <
                           new_generation'.chromosomes[i].total_cost}) < i]_vars

\* both elites of generation t were displaced by offspring of lower cost
C11_Witness ==
  /\ pc = "rank_selected"
  /\ problem_mode = "SOGA"
  /\ ~user_request_stop
  /\ ~fitness_constant
  /\ elite_count = 2
  /\ population = 2
  /\ Len(last_generation.chromosomes) = 2
  /\ \A k \in 1 .. 2 : last_generation.chromosomes[k].genes = 1
  /\ Len(new_generation.chromosomes) = 2
  /\ \A k \in 1 .. 2 : new_generation.chromosomes[k].genes = 0

\* C12: in SO selection at generation_step >= 1 no chromosome of the combined
\* parent+offspring population is copied into the selected generation more
\* than once: the selected generation is the copy of population pairwise
\* distinct chromosome indices.
C12_SelectedIndicesAreDistinct ==
  [][(/\ pc = "select_population"
      /\ pc' = "rank_selected"
      /\ is_single_objective
      /\ ~user_request_stop
      /\ generation_step >= 1) =>
       \E indices \in Arrangements(0 .. Len(new_generation.chromosomes) - 1, population) :
         new_generation' = Selected(new_generation, indices)]_vars

\* rank_population has just ranked new_generation: generation 0 or the
\* selected generation (before finalize_generation), or the combined
\* population (before select_population)
JustRanked ==
  /\ pc \in {"finalize_generation", "select_population"}
  /\ ~user_request_stop

\* C13: for every generation that rank_population has ranked (here in runs
\* without user_initial_solutions), selection_chance_cumulative has one entry
\* per chromosome, is strictly increasing, and its last entry equals 1.
C13_SelectionChanceEndsAtOne ==
  (JustRanked /\ user_initial_solutions = <<>>) =>
    LET scc == new_generation.selection_chance_cumulative
        N == Len(new_generation.chromosomes)
    IN /\ Len(scc) = N
       /\ \A k \in 1 .. N - 1 : scc[k] < scc[k + 1]
       /\ N >= 1 => scc[N] = Scale

\* C14: rank-based selection eliminates no individual: for every generation
\* g on which select_parent is called (last_generation during variation, the
\* combined population during SO selection), every chromosome index of g is
\* returned for some draw r in [0, 1), and only indices in [0, |g|) are
\* (here in runs without user_initial_solutions).
C14_SelectParentReachesEveryIndex ==
  /\ (pc = "variation" /\ SlotsRemain /\ user_initial_solutions = <<>>) =>
       select_parent(last_generation) = 0 .. Len(last_generation.chromosomes) - 1
  /\ (/\ pc = "select_population"
      /\ is_single_objective
      /\ ~user_request_stop
      /\ user_initial_solutions = <<>>) =>
       select_parent(new_generation) = 0 .. Len(new_generation.chromosomes) - 1

\* the sequence p holds every element of 0 .. N - 1 exactly once
IsPermutation(p, N) ==
  /\ Len(p) = N
  /\ \A c \in 0 .. N - 1 : Cardinality({i \in 1 .. N : p[i] = c}) = 1

\* C15: in SO/IGA mode, after rank_population on a generation of N
\* chromosomes, sorted_indices is a permutation of [0, N) along which
\* total_cost is non-decreasing, for every cost vector (duplicates included),
\* with the built-in quicksort and with the library sort.
C15_SortedIndicesIsSortedPermutation ==
  (JustRanked /\ is_single_objective) =>
    LET N == Len(new_generation.chromosomes)
        sorted == new_generation.sorted_indices
    IN /\ IsPermutation(sorted, N)
       /\ \A i \in 1 .. N - 1 : Cost(new_generation, sorted[i]) <= Cost(new_generation, sorted[i + 1])

\* four chromosomes with duplicate costs, not in order, ranked by the quicksort
C15_Witness ==
  /\ pc = "finalize_generation"
  /\ problem_mode = "SOGA"
  /\ use_quick_sort
  /\ Len(new_generation.chromosomes) = 4
  /\ Cost(new_generation, 0) = 2
  /\ Cost(new_generation, 1) = 1
  /\ Cost(new_generation, 2) = 2
  /\ Cost(new_generation, 3) = 0
  /\ new_generation.sorted_indices[1] = 3
  /\ new_generation.sorted_indices[2] = 1

RECURSIVE TotalCost(_)
\* the sum of total_cost over a sequence of chromosomes
TotalCost(chromosomes) ==
  IF chromosomes = <<>> THEN 0
  ELSE chromosomes[1].total_cost + TotalCost(Tail(chromosomes))

\* C16: in SO/IGA mode, for every completed generation, best_total_cost is the
\* minimum total_cost over its chromosomes, best_chromosome_index is the index
\* of a chromosome with that cost, and average_cost is the sum of total_cost
\* divided by the number of chromosomes.
C16_BestAndAverageOfCompletedGeneration ==
  (pc = "last_generation" /\ Completed /\ is_single_objective) =>
    LET g == new_generation
        N == Len(g.chromosomes)
    IN /\ N >= 1
       /\ \A k \in 1 .. N : g.best_total_cost <= g.chromosomes[k].total_cost
       /\ g.best_chromosome_index \in 0 .. N - 1
       /\ Cost(g, g.best_chromosome_index) = g.best_total_cost
       /\ g.average_cost = (TotalCost(g.chromosomes) * Scale) \div N

\* a completed generation whose cheapest chromosome is the last of four
C16_Witness ==
  /\ pc = "last_generation"
  /\ Completed
  /\ problem_mode = "IGA"
  /\ Len(new_generation.chromosomes) = 4
  /\ Cost(new_generation, 0) = 2
  /\ Cost(new_generation, 1) = 1
  /\ Cost(new_generation, 2) = 2
  /\ Cost(new_generation, 3) = 0
  /\ new_generation.best_chromosome_index = 3
  /\ new_generation.average_cost = 12500

RECURSIVE Concatenated(_)
\* the fronts one after the other
Concatenated(fronts) ==
  IF fronts = <<>> THEN <<>> ELSE fronts[1] \o Concatenated(Tail(fronts))

\* the 0-based number of the front that holds chromosome index c
FrontOf(g, c) ==
  CHOOSE f \in 0 .. Len(g.fronts) - 1 :
    \E k \in 1 .. Len(g.fronts[f + 1]) : g.fronts[f + 1][k] = c

\* C17: in NSGA-III mode, after rank_population_MO on N chromosomes, the
\* fronts concatenated are a permutation of [0, N) with no empty front, front
\* 0 is exactly the set of chromosomes that no other chromosome dominates,
\* and a chromosome never dominates a chromosome of an earlier front.
C17_FrontsPartitionByDominance ==
  (JustRanked /\ ~is_single_objective) =>
    LET g == new_generation
        N == Len(g.chromosomes)
    IN /\ IsPermutation(Concatenated(g.fronts), N)
       /\ \A f \in 1 .. Len(g.fronts) : g.fronts[f] # <<>>
       /\ {g.fronts[1][k] : k \in 1 .. Len(g.fronts[1])} =
            {i \in 0 .. N - 1 :
               \A j \in 0 .. N - 1 : ~dominates(g.chromosomes[j + 1], g.chromosomes[i + 1])}
       /\ \A i, j \in 0 .. N - 1 :
            FrontOf(g, i) < FrontOf(g, j) =>
              ~dominates(g.chromosomes[j + 1], g.chromosomes[i + 1])

\* a chain of three chromosomes, given out of order, ranked into three fronts
C17_Witness ==
  /\ pc = "finalize_generation"
  /\ problem_mode = "NSGA_III"
  /\ Len(new_generation.chromosomes) = 3
  /\ new_generation.chromosomes[1].objectives = <<1, 1>>
  /\ new_generation.chromosomes[2].objectives = <<0, 0>>
  /\ new_generation.chromosomes[3].objectives = <<2, 2>>
  /\ new_generation.fronts = << <<1>>, <<0>>, <<2>> >>

\* some two chromosomes of the generation have objective vectors of
\* different lengths
MixedLengths(g) ==
  \E i, j \in 1 .. Len(g.chromosomes) :
    Len(g.chromosomes[i].objectives) # Len(g.chromosomes[j].objectives)

\* C18: dominates(a, b) is true exactly when no component of a.objectives
\* exceeds the corresponding component of b.objectives and at least one is
\* strictly smaller; it is irreflexive and asymmetric, and for equal
\* objective vectors neither dominates the other.  Objective vectors of
\* different lengths raise an error.
C18_DominatesIsStrictParetoOrder ==
  ~is_single_objective =>
    LET X == new_generation.chromosomes
    IN /\ \A i, j \in 1 .. Len(X) :
            Len(X[i].objectives) = Len(X[j].objectives) =>
              LET a == X[i].objectives
                  b == X[j].objectives
                  K == 1 .. Len(a)
              IN /\ dominates(X[i], X[j]) <=>
                      /\ {k \in K : a[k] > b[k]} = {}
                      /\ {k \in K : a[k] < b[k]} # {}
                 /\ a = b => (~dominates(X[i], X[j]) /\ ~dominates(X[j], X[i]))
                 /\ ~(dominates(X[i], X[j]) /\ dominates(X[j], X[i]))
                 /\ ~dominates(X[i], X[i])
       /\ (pc = "error" /\ error = "vector size mismatch A73592753!") => MixedLengths(new_generation)
       /\ (pc = "finalize_generation" /\ ~user_request_stop) => ~MixedLengths(new_generation)

\* two chromosomes with equal objective vectors were ranked: neither
\* dominates the other, both are in front 0
C18_Witness ==
  /\ pc = "finalize_generation"
  /\ problem_mode = "NSGA_III"
  /\ Len(new_generation.chromosomes) = 2
  /\ new_generation.chromosomes[1].objectives = <<1, 2>>
  /\ new_generation.chromosomes[2].objectives = <<1, 2>>
  /\ new_generation.fronts = << <<0, 1>> >>

\* every component of ideal is at most the component of every chromosome of g
BelowAll(ideal, g) ==
  \A c \in 1 .. Len(g.chromosomes) :
    /\ Len(g.chromosomes[c].objectives) = Len(ideal)
    /\ \A k \in 1 .. Len(ideal) : ideal[k] <= g.chromosomes[c].objectives[k]

\* C19: in NSGA-III mode, within one solve() run, every component of
\* ideal_objectives is non-increasing from generation to generation; after
\* generation 0 and after each later generation's selection it is at most the
\* objective of every chromosome evaluated so far (those of the population
\* just handled, and by monotonicity all earlier ones); it is set from the
\* population only once, in solve_init.
C19_IdealObjectivesOnlyTighten ==
  [][~is_single_objective =>
       /\ ideal_objectives # <<>> =>
            /\ Len(ideal_objectives') = Len(ideal_objectives)
            /\ \A k \in 1 .. Len(ideal_objectives) : ideal_objectives'[k] <= ideal_objectives[k]
       /\ (ideal_objectives = <<>> /\ ideal_objectives' # <<>>) =>
            (generation_step = 0 /\ pc = "finalize_generation")
       /\ (pc = "finalize_generation" /\ pc' = "history" /\ generation_step = 0 /\ ~user_request_stop) =>
            (ideal_objectives' # <<>> /\ BelowAll(ideal_objectives', new_generation))
       /\ (pc = "select_population" /\ pc' = "rank_selected" /\ ~user_request_stop) =>
            (ideal_objectives' # <<>> /\ BelowAll(ideal_objectives', new_generation)
                                      /\ BelowAll(ideal_objectives', last_generation))]_vars

\* the selection of generation 1 lowered the ideal point that generation 0 set
C19_Witness ==
  /\ pc = "rank_selected"
  /\ problem_mode = "NSGA_III"
  /\ ~user_request_stop
  /\ generation_step = 1
  /\ Len(last_generation.chromosomes) = 2
  /\ \A c \in 1 .. 2 : last_generation.chromosomes[c].objectives = <<1, 0>>
  /\ ideal_objectives = <<0, 0>>

RECURSIVE Binomial(_, _)
\* C(n, k) by Pascal's rule
Binomial(n, k) ==
  IF k = 0 \/ k = n THEN 1
  ELSE IF k < 0 \/ k > n THEN 0
  ELSE Binomial(n - 1, k - 1) + Binomial(n - 1, k)

RECURSIVE SumOf(_)
SumOf(row) == IF row = <<>> THEN 0 ELSE row[1] + SumOf(Tail(row))

\* row a comes before row b in lexicographic order, first coordinate first
LexLess(a, b) ==
  \E k \in 1 .. Len(a) :
    /\ a[k] < b[k]
    /\ \A q \in 1 .. k - 1 : a[q] = b[q]

\* C20: for dept >= 1 and d >= 1, generate_referenceVectors(dept, d) returns
\* C(dept + d - 1, d) rows, the number get_number_reference_vectors(dept, d)
\* reports; the rows times d are the distinct non-negative integer vectors of
\* length dept that sum to d, in lexicographic order with the first
\* coordinate varying slowest, so each row sums to 1 (dept = 3, d = 4 gives
\* 15 rows, (1, 0, 0) among them); dept < 1 raises an error.
C20_ReferenceVectorsAreTheSimplexLattice ==
  LET dept == N_robj
      d == reference_vector_divisions
      R == reference_vectors
      rows == [i \in 1 .. Len(R) |-> [j \in 1 .. Len(R[i]) |-> R[i][j].num]]
  IN /\ pc = "returned" =>
          /\ dept >= 1
          /\ Len(R) = Binomial(dept + d - 1, d)
          /\ Len(R) = get_number_reference_vectors(dept, d)
          /\ \A i \in 1 .. Len(R) :
               /\ Len(R[i]) = dept
               /\ \A j \in 1 .. dept : R[i][j].den = d /\ R[i][j].num \in 0 .. d
               /\ SumOf(rows[i]) = d
          /\ \A i \in 1 .. Len(R) - 1 : LexLess(rows[i], rows[i + 1])
          /\ (dept = 3 /\ d = 4) =>
               (Len(R) = 15 /\ \E i \in 1 .. Len(R) : rows[i] = <<4, 0, 0>>)
     /\ (pc \in {"returned", "error"} /\ new_generation = GenerationType /\ generation_step = 0) =>
          /\ pc = "error" <=> dept < 1
          /\ pc = "error" => (error = "wrong vector dept!" /\ R = <<>>)

\* generate_referenceVectors(3, 4) has returned its 15 rows
C20_Witness ==
  /\ pc = "returned"
  /\ N_robj = 3
  /\ reference_vector_divisions = 4
  /\ Len(reference_vectors) = 15
  /\ reference_vectors[15] = <<[num |-> 4, den |-> 4], [num |-> 0, den |-> 4], [num |-> 0, den |-> 4]>>
  /\ reference_vectors[1] = <<[num |-> 0, den |-> 4], [num |-> 0, den |-> 4], [num |-> 4, den |-> 4]>>

\* solve_init has just sized reference_vector_divisions automatically
AutoSized ==
  /\ pc = "finalize_objectives"
  /\ generation_step = 0
  /\ problem_mode = "NSGA_III"
  /\ reference_vector_divisions = 0
  /\ pc' = "rank_population"

\* C21 as stated: the d picked for reference_vector_divisions = 0 is the
\* smallest d whose reference-point count exceeds the population:
\* C(N_robj + d - 1, d) > P and C(N_robj + d - 2, d - 1) <= P.
C21_AutoSizePicksSmallestCountAbovePopulation ==
  [][AutoSized =>
       LET d == reference_vector_divisions'
       IN /\ Binomial(N_robj' + d - 1, d) > population
          /\ Binomial(N_robj' + d - 2, d - 1) <= population]_vars

\* C21: the d picked for reference_vector_divisions = 0 is at least 2, the
\* reference-point count of d + 1 exceeds the population, and d is 2 or its
\* own reference-point count does not exceed the population: d is the largest
\* number of divisions whose count is at most P, and 2 if there is none.
C21_AutoSizePicksLargestCountWithinPopulation ==
  [][AutoSized =>
       LET d == reference_vector_divisions'
       IN /\ d >= 2
          /\ Binomial(N_robj' + d, d + 1) > population
          /\ d = 2 \/ Binomial(N_robj' + d - 1, d) <= population
          /\ \A e \in 2 .. d : e = 2 \/ Binomial(N_robj' + e - 1, e) <= population]_vars

\* two objectives and a population of 5: the loop has stepped from 2 to 4
\* divisions, whose 5 reference points do not exceed the population
C21_Witness ==
  /\ pc = "rank_population"
  /\ problem_mode = "NSGA_III"
  /\ generation_step = 0
  /\ population = 5
  /\ N_robj = 2
  /\ reference_vector_divisions = 4

\* dynamic_thread_action or static_thread_action is in progress
InThreadPool == action_at \in {"dispatch", "launch", "wait", "join"}

\* the thread constructions whose range holds slot s
TasksOf(s) == {k \in 1 .. Len(launched) : launched[k].index_from <= s /\ s <= launched[k].index_to}

\* the range of the task that runs at position t
LatestTask(t) ==
  LET ks == {k \in 1 .. Len(launched) : launched[k].thread = t}
  IN launched[CHOOSE k \in ks : \A q \in ks : q <= k]

\* the state part of C22
C22_SlotsReservedAndAssignedOnce ==
  InThreadPool =>
    /\ Len(new_generation.chromosomes) = offset + N_add
    /\ \A k \in 1 .. Len(launched) :
         /\ offset <= launched[k].index_from
         /\ launched[k].index_from <= launched[k].index_to
         /\ launched[k].index_to < offset + N_add
    /\ \A s \in offset .. offset + N_add - 1 : Cardinality(TasksOf(s)) <= 1
    /\ (action_at \in {"wait", "join"} /\ ~user_request_stop) =>
         \A s \in offset .. offset + N_add - 1 : Cardinality(TasksOf(s)) = 1
    /\ \A t \in 1 .. N_threads :
         thread_pool[t].running =>
           /\ LatestTask(t).index_from = thread_pool[t].index_from
           /\ LatestTask(t).index_to = thread_pool[t].index_to
           /\ thread_pool[t].index_from <= thread_pool[t].index
           /\ thread_pool[t].index <= thread_pool[t].index_to + 1

\* the step part of C22
C22_WritesOwnSlotAndRelaunchAfterJoin ==
  InThreadPool =>
    /\ Len(new_generation'.chromosomes) = Len(new_generation.chromosomes)
    /\ \A s \in 1 .. Len(new_generation.chromosomes) :
         new_generation'.chromosomes[s] # new_generation.chromosomes[s] =>
           /\ \E t \in 1 .. N_threads :
                /\ thread_pool[t].running /\ thread_pool[t].evaluating
                /\ thread_pool[t].index = s - 1
                /\ thread_pool[t].index_from <= s - 1 /\ s - 1 <= thread_pool[t].index_to
                /\ thread_pool'[t].index = s
                /\ \A u \in 1 .. N_threads :
                     (u # t /\ thread_pool[u].running) =>
                       (s - 1 < thread_pool[u].index_from \/ s - 1 > thread_pool[u].index_to)
           /\ \A q \in 1 .. Len(new_generation.chromosomes) :
                q # s => new_generation'.chromosomes[q] = new_generation.chromosomes[q]
    /\ (action_at = "dispatch" /\ Len(launched') > Len(launched)) =>
         LET t == launched'[Len(launched')].thread
         IN ~active_threads[t] /\ ~thread_pool[t].running

\* C22: in the static and the dynamic pool the generation vector holds its
\* N_add new slots before any worker starts and keeps its length while
\* workers run; without cancellation every slot of [offset, offset + N_add)
\* is in the range of exactly one thread construction; a worker writes only
\* the slot at its current index, inside its range, and never appends, so no
\* two workers write the same slot; the dynamic pool gives a position a new
\* slot only when its active flag is clear and its previous thread function
\* has returned (it is joined first).
C22_WorkersWriteDisjointReservedSlots ==
  /\ []C22_SlotsReservedAndAssignedOnce
  /\ [][C22_WritesOwnSlotAndRelaunchAfterJoin]_vars

\* the static pool in variation with three new slots behind the transferred
\* parents: position 1 has slot offset, position 2 the two slots after it,
\* both workers evaluate at the same time
C22_Witness ==
  /\ pc = "variation"
  /\ action_at = "wait"
  /\ ~user_request_stop
  /\ offset = 3 /\ N_add = 3
  /\ Len(launched) = 2
  /\ launched[2].index_from = 4 /\ launched[2].index_to = 5
  /\ thread_pool[1].evaluating /\ thread_pool[2].evaluating
  /\ thread_pool[2].index = 5

\* the genes that eval_solution accepts
AcceptedGenes == Genes \ rejected_genes

\* dynamic_thread_action or static_thread_action returns
PoolReturns == InThreadPool /\ action_at' = "outside"

\* C23: static_thread_action and dynamic_thread_action return, in
\* init_population and in crossover_and_mutation, only when the thread
\* function of every worker they launched has returned with all slots of its
\* range done; on a return without cancellation every pre-reserved slot holds
\* a candidate that the evaluation accepted.
C23_ReturnOnlyAfterEveryWorkerFinished ==
  [][PoolReturns =>
       /\ pc \in {"init_population", "variation"}
       /\ \A k \in 1 .. Len(launched) :
            LET t == launched[k].thread
            IN /\ ~thread_pool[t].running
               /\ ~thread_pool[t].evaluating
               /\ thread_pool[t].index = thread_pool[t].index_to + 1
               /\ \A s \in launched[k].index_from .. launched[k].index_to :
                    new_generation'.chromosomes[s + 1].genes \in AcceptedGenes
       /\ ~user_request_stop =>
            /\ Len(new_generation'.chromosomes) = offset + N_add
            /\ \A s \in offset .. offset + N_add - 1 :
                 new_generation'.chromosomes[s + 1].genes \in AcceptedGenes]_vars

\* init_population has returned from the static pool with three slots, two
\* of them filled by the worker at position 2
C23_Witness ==
  /\ pc = "finalize_objectives"
  /\ generation_step = 0
  /\ Threading = "static"
  /\ ~user_request_stop
  /\ population = 3
  /\ Len(new_generation.chromosomes) = 3
  /\ \A s \in 1 .. 3 : new_generation.chromosomes[s].genes \in AcceptedGenes

\* the calls of the evaluation callback in progress
Evaluating == {t \in DOMAIN thread_pool : thread_pool[t].evaluating}

\* C24: in IGA mode, for every multi_threading and dynamic_threading (with
\* N_threads = 2), init_population and crossover_and_mutation take the
\* sequential path: no std::thread is constructed, at most one
\* eval_solution_IGA call is in progress, it runs on the calling thread, and
\* when candidate number x_index is evaluated the generation under
\* construction already holds the x_index candidates accepted before it.
C24_InteractiveModeRunsSequentially ==
  is_interactive =>
    /\ action_at \in {"outside", "sequential"}
    /\ launched = <<>>
    /\ \A t \in DOMAIN thread_pool : t >= 1 => thread_pool[t] = NoThread
    /\ Cardinality(Evaluating) <= 1
    /\ Evaluating \subseteq {0}
    /\ action_at = "sequential" =>
         Len(new_generation.chromosomes) =
           offset + x_index +
           (IF thread_pool[0].running /\ thread_pool[0].index > thread_pool[0].index_to
            THEN 1 ELSE 0)
    /\ \A s \in 1 .. Len(new_generation.chromosomes) :
         new_generation.chromosomes[s] # PlaceholderChromosome

\* IGA with the dynamic pool requested: the second offspring is being
\* evaluated on the calling thread against a generation that holds the first
C24_Witness ==
  /\ problem_mode = "IGA"
  /\ multi_threading /\ dynamic_threading /\ N_threads = 2
  /\ pc = "variation"
  /\ action_at = "sequential"
  /\ x_index = 1
  /\ thread_pool[0].evaluating
  /\ Len(new_generation.chromosomes) = offset + 1

\* every chromosome of the generation was accepted by the evaluation
AllAccepted(g) == \A s \in 1 .. Len(g.chromosomes) : g.chromosomes[s].genes \in AcceptedGenes

\* the state part of C25
C25_OnlyAcceptedCandidatesAreKept ==
  /\ \A g \in {new_generation, last_generation} :
       \A s \in 1 .. Len(g.chromosomes) :
         g.chromosomes[s].genes \in AcceptedGenes \cup {DefaultGenes}
  /\ (pc = "last_generation" /\ Completed) =>
       /\ Len(new_generation.chromosomes) > 0
       /\ AllAccepted(new_generation)
  /\ (pc = "done" /\ Completed) =>
       /\ Len(last_generation.chromosomes) > 0
       /\ AllAccepted(last_generation)
       /\ is_single_objective =>
            /\ last_generation.best_chromosome_index \in 0 .. Len(last_generation.chromosomes) - 1
            /\ last_generation.chromosomes[last_generation.best_chromosome_index + 1].genes
                 \in AcceptedGenes
       /\ ~is_single_objective =>
            \A i \in 1 .. Len(last_generation.fronts[1]) :
              last_generation.chromosomes[last_generation.fronts[1][i] + 1].genes \in AcceptedGenes

\* the step part of C25: a rejection leaves the generation as it is and the
\* thread at the same slot
C25_RejectedCandidateIsRedrawn ==
  \A t \in DOMAIN thread_pool :
    (/\ thread_pool[t].evaluating
     /\ thread_pool[t].X \in rejected_genes
     /\ DOMAIN thread_pool' = DOMAIN thread_pool
     /\ thread_pool'[t] # thread_pool[t]) =>
      /\ new_generation' = new_generation
      /\ thread_pool'[t].running
      /\ thread_pool'[t].index = thread_pool[t].index
      /\ thread_pool'[t].index <= thread_pool'[t].index_to

\* C25: a candidate that the evaluation callback rejects is not stored: the
\* generation under construction is unchanged and the same slot is tried
\* again; no generation ever holds a rejected candidate; every chromosome of
\* a completed (reported) generation was accepted, and when solve() returns
\* after a completed generation the best chromosome of last_generation (the
\* first front in NSGA_III mode) was accepted.
C25_RejectionIsRecoveredLocally ==
  /\ []C25_OnlyAcceptedCandidatesAreKept
  /\ [][C25_RejectedCandidateIsRedrawn]_vars

\* generation 2 is under construction in the dynamic pool after two reported
\* generations; the worker at position 1 has had a candidate rejected and is
\* about to draw again for the same slot, which still holds the pre-fill
C25_Witness ==
  /\ pc = "variation"
  /\ action_at \in {"dispatch", "wait"}
  /\ generation_step = 2
  /\ Len(reports) = 2
  /\ thread_pool[1].running
  /\ ~thread_pool[1].evaluating
  /\ thread_pool[1].X \in rejected_genes
  /\ thread_pool[1].index <= thread_pool[1].index_to
  /\ new_generation.chromosomes[thread_pool[1].index + 1] = PlaceholderChromosome

\* solve() has returned its stop reason
SolveReturned == pc = "done" /\ stop # "Undefined"

\* C26: with settings that pass the validation, an evaluation that accepts
\* every candidate and nobody setting user_request_stop, solve() eventually
\* returns a stop reason other than Undefined.
C26_SolveEventuallyReturns == <>SolveReturned

\* the generation has been ranked and, in the single-objective modes,
\* finalized
RankedAndFinalized(g) ==
  IF is_single_objective
  THEN /\ IsPermutation(g.sorted_indices, Len(g.chromosomes))
       /\ g = finalize_generation(g)
       /\ g.best_chromosome_index \in 0 .. Len(g.chromosomes) - 1
  ELSE /\ Len(g.fronts) > 0
       /\ IsPermutation(Concatenated(g.fronts), Len(g.chromosomes))

\* the state part of C27
C27_StepsAndReportsInOrder ==
  ~user_request_stop =>
    /\ pc \in {"idle", "init_population"} => (generation_step = -1 /\ reports = <<>>)
    /\ generation_step >= -1
    /\ \A i \in 1 .. Len(reports) : reports[i] = i - 1
    /\ Len(generations_so_abs) = Len(reports)
    /\ (pc \notin {"idle", "init_population", "error"}) =>
         Len(reports) = (IF pc \in {"last_generation", "solve_next_generation", "done"}
                         THEN generation_step + 1 ELSE generation_step)

\* the step part of C27
C27_OneStepAndOneReportPerGeneration ==
  ~user_request_stop' =>
    /\ generation_step' # generation_step =>
         /\ generation_step' = generation_step + 1
         /\ pc \in {"init_population", "solve_next_generation"}
         /\ pc = "init_population" <=> generation_step = -1
    /\ reports' # reports =>
         /\ reports' = Append(reports, generation_step)
         /\ generations_so_abs' = Append(generations_so_abs, GenerationTypeSOAbstract(new_generation))
         /\ pc = "history" /\ pc' = "last_generation"
         /\ new_generation' = new_generation
         /\ RankedAndFinalized(new_generation)
    /\ (pc = "history" /\ pc' # pc) => reports' # reports

\* C27: without cancellation, generation_step is -1 until init_population
\* has returned, then 0, and goes up by exactly 1 per solve_next_generation;
\* the report callback is called once per generation, with the steps
\* 0, 1, 2, ... in this order, on a generation that is ranked and finalized;
\* when the generation of step n is complete generations_so_abs has n + 1
\* entries.
C27_GenerationStepsAndReports ==
  /\ []C27_StepsAndReportsInOrder
  /\ [][C27_OneStepAndOneReportPerGeneration]_vars

\* solve() has returned after generations 0, 1 and 2, each reported once
C27_Witness ==
  /\ pc = "done"
  /\ ~user_request_stop
  /\ generation_step = 2
  /\ reports = <<0, 1, 2>>
  /\ Len(generations_so_abs) = 3

\* the matrix holds n_rows * n_cols elements
HoldsAllElements == Len(data) = n_rows * n_cols

\* element (i, j) of the matrix
Element(i, j) == data[ElementIndex(n_cols, i, j) + 1]
Row(i) == [j \in 1 .. n_cols |-> Element(i, j - 1)]
Col(j) == [i \in 1 .. n_rows |-> Element(i - 1, j)]

\* the last call was set_row / set_col with a valid index and a vector of
\* the right length, on a matrix that holds n_rows * n_cols elements
ValidSetRow ==
  /\ last_call.op = "set_row"
  /\ HoldsAllElements
  /\ last_call.idx < n_rows
  /\ Len(last_call.vec) = n_cols
ValidSetCol ==
  /\ last_call.op = "set_col"
  /\ HoldsAllElements
  /\ last_call.idx < n_cols
  /\ Len(last_call.vec) = n_rows

\* such a set_row / set_col ends normally and the matrix holds the vector
C28_SetStoresTheVector ==
  /\ ValidSetRow => (outcome = "ok" /\ Row(last_call.idx) = last_call.vec)
  /\ ValidSetCol => (outcome = "ok" /\ Col(last_call.idx) = last_call.vec)

\* get_row(i, out) / get_col(j, out) right after it gives the vector back
C28_GetReturnsTheVector ==
  /\ (ValidSetRow /\ last_call'.op = "get_row" /\ last_call'.idx = last_call.idx) =>
       (outcome' = "ok" /\ out' = last_call.vec)
  /\ (ValidSetCol /\ last_call'.op = "get_col" /\ last_call'.idx = last_call.idx) =>
       (outcome' = "ok" /\ out' = last_call.vec)

\* C28: on a matrix that holds n_rows * n_cols elements, set_row(i, v) with
\* i < n_rows and v of length n_cols followed by get_row(i, out) gives
\* out = v, and set_col(j, w) with j < n_cols and w of length n_rows followed
\* by get_col(j, out) gives out = w.
C28_RowAndColumnRoundTrip ==
  /\ []C28_SetStoresTheVector
  /\ [][C28_GetReturnsTheVector]_vars

\* a 2 x 2 matrix after set_col(1, <<1, 0>>), get_col(1, out): the values
\* went to the second column and came back, the first column is untouched
C28_Witness ==
  /\ n_rows = 2 /\ n_cols = 2
  /\ last_call.op = "get_col" /\ last_call.idx = 1
  /\ last_call.after = <<"set_col", 1>>
  /\ outcome = "ok"
  /\ out = <<1, 0>>
  /\ data = <<0, 1, 0, 0>>

\* every element (i, j) with i < n_rows and j < n_cols is stored and is 0
AllElementsZero(rows, cols, d) ==
  \A i \in 0 .. rows - 1, j \in 0 .. cols - 1 :
    /\ ElementIndex(cols, i, j) < Len(d)
    /\ d[ElementIndex(cols, i, j) + 1] = 0

\* what a call of zeros() or zeros(r, c) does to the matrix
C29_ZerosStep ==
  /\ last_call'.op = "zeros" =>
       /\ n_rows' = n_rows
       /\ n_cols' = n_cols
       /\ AllElementsZero(n_rows', n_cols', data')
  /\ last_call'.op = "zeros_rc" =>
       /\ n_rows' = last_call'.vec[1]
       /\ n_cols' = last_call'.vec[2]
       /\ AllElementsZero(n_rows', n_cols', data')

\* C29: zeros() keeps n_rows and n_cols and leaves every element (i, j),
\* i < n_rows, j < n_cols, equal to 0; zeros(r, c) sets the dimensions to
\* r x c and leaves every element (i, j), i < r, j < c, equal to 0, whatever
\* the matrix was before.
C29_ZerosFillsEveryElement == [][C29_ZerosStep]_vars

\* the last call assigned k >= 1 rows that are all empty
AssignedEmptyRows ==
  /\ last_call.op = "operator="
  /\ last_call.idx >= 1
  /\ \A i \in 1 .. Len(last_call.vec) : last_call.vec[i] = 0

\* C30: after the assignment of k >= 1 rows that are all empty,
\* get_n_rows() and get_n_cols() are both 0.
C30_EmptyRowsGiveAnEmptyMatrix ==
  AssignedEmptyRows => (n_rows = 0 /\ n_cols = 0)

\* the last call assigned rows that do not all have the same length
AssignedJaggedRows ==
  /\ last_call.op = "operator="
  /\ \E i, j \in 1 .. Len(last_call.vec) : last_call.vec[i] # last_call.vec[j]

\* C31: the assignment of rows of different lengths ends normally, without
\* a read outside an input row, and leaves a matrix with no stored element.
C31_JaggedRowsGiveAnEmptyMatrix ==
  AssignedJaggedRows => (outcome = "ok" /\ data = <<>>)

\* the last call was an element access m(row, col) outside the dimensions
AccessOutsideDimensions ==
  /\ last_call.op \in {"operator()", "operator() const"}
  /\ (last_call.idx >= n_rows \/ last_call.vec[1] >= n_cols)

\* C32: in a release build an element access (row, col) with row >= n_rows
\* or col >= n_cols ends with an out_of_range error; it neither returns a
\* value of the storage nor writes one.
C32_AccessOutsideDimensionsIsSignalled ==
  (NDEBUG /\ AccessOutsideDimensions) => outcome = "out_of_range"

\* the state part of C40, for a call that ended normally
C40_StorageMatchesDimensions ==
  outcome = "ok" =>
    /\ Len(data) = n_rows * n_cols
    /\ empty <=> (n_rows * n_cols = 0)

\* the step part of C40
C40_ReadOnlyCallsChangeNothing ==
  (last_call'.op \in {"get_row", "get_col", "print"} /\ outcome' = "ok") =>
    /\ n_rows' = n_rows
    /\ n_cols' = n_cols
    /\ data' = data

\* C40: after any sequence of public Matrix operations the number of stored
\* elements is n_rows * n_cols and empty() is true exactly when
\* n_rows * n_cols = 0; get_row, get_col and print leave the dimensions and
\* the contents unchanged.
C40_RepresentationInvariant ==
  /\ []C40_StorageMatchesDimensions
  /\ [][C40_ReadOnlyCallsChangeNothing]_vars

\* the lowest total_cost of a generation with at least one chromosome
MinCost(g) ==
  CHOOSE c \in {Cost(g, i) : i \in 0 .. Len(g.chromosomes) - 1} :
    \A i \in 0 .. Len(g.chromosomes) - 1 : c <= Cost(g, i)

\* SOGA with at least one elite
ElitistSOGA == problem_mode = "SOGA" /\ elite_count >= 1

\* a step of select_population that is not skipped: the combined population
\* starts with the chromosomes of the previous generation, and its lowest
\* cost is the lowest cost of the selected generation
C36_SelectionKeepsTheBest ==
  (ElitistSOGA /\ pc = "select_population" /\ pc' = "rank_selected" /\ ~user_request_stop) =>
    /\ Len(new_generation.chromosomes) > population
    /\ \A k \in 1 .. Len(last_generation.chromosomes) :
         new_generation.chromosomes[k].genes = last_generation.chromosomes[k].genes
    /\ Len(new_generation'.chromosomes) = population
    /\ MinCost(new_generation') = MinCost(new_generation)
    /\ MinCost(new_generation') <= MinCost(last_generation)

\* a generation that completes after another one has a best_total_cost that
\* is not above the one before
C36_HistoryNeverGetsWorse ==
  (ElitistSOGA /\ reports' # reports /\ Len(generations_so_abs) >= 1) =>
    /\ generations_so_abs'[Len(generations_so_abs')].best_total_cost
         <= generations_so_abs[Len(generations_so_abs)].best_total_cost
    /\ generations_so_abs'[Len(generations_so_abs')].best_total_cost = MinCost(new_generation)

\* C36: in SOGA mode with elite_count >= 1 (the fitness is a function of the
\* genes), best_total_cost does not increase from one completed generation
\* to the next, and the lowest-cost chromosome of the combined population
\* (the previous generation and the offspring) is in the selected
\* generation.
C36_BestCostNeverIncreases ==
  [][C36_SelectionKeepsTheBest /\ C36_HistoryNeverGetsWorse]_vars

\* generation 1 improved on generation 0 and generation 2 kept the best of
\* generation 1, with costs that depend on the genes
C36_Witness ==
  /\ ElitistSOGA
  /\ ~fitness_constant
  /\ Len(generations_so_abs) >= 3
  /\ generations_so_abs[1].best_total_cost = 1
  /\ generations_so_abs[2].best_total_cost = 0
  /\ generations_so_abs[3].best_total_cost = 0

\* solve_next_generation is at its stop decision
AtStopDecision == pc = "last_generation" /\ generation_step >= 1

\* the step that leaves the stop decision with user_request_stop set
C37_StopDecisionAfterRequest ==
  (AtStopDecision /\ user_request_stop /\ pc' # pc) =>
    /\ stop' # "Undefined"
    /\ pc' = "done"

\* C37: when user_request_stop is set at the stop decision of
\* solve_next_generation, the call returns a reason other than Undefined
\* and solve() starts no further generation.
C37_RequestEndsTheRun == [][C37_StopDecisionAfterRequest]_vars

\* the stop decision reads generations_so_abs[size - 2] and [size - 1]
ReadsLastTwoEntries == AtStopDecision /\ ~StopEarlyReturn /\ is_single_objective

\* C38: in SOGA and IGA mode, whenever the stop decision reads the last two
\* entries of generations_so_abs, generations_so_abs has at least two
\* entries.
C38_StopDecisionReadsInsideHistory ==
  ReadsLastTwoEntries => Len(generations_so_abs) >= 2

\* C39: in NSGA-III mode (best_stall_max >= 1, average_stall_max >= 1) the
\* stall counters are 0 in every state of the run and solve() returns
\* neither StallBest nor StallAverage.
C39_NoStallStopInMultiObjectiveRuns ==
  (problem_mode = "NSGA_III" /\ best_stall_max >= 1 /\ average_stall_max >= 1) =>
    /\ best_stall_count = 0
    /\ average_stall_count = 0
    /\ stop \in {"Undefined", "MaxGenerations", "UserRequest"}
    /\ pc = "done" => stop \in {"MaxGenerations", "UserRequest"}

\* an NSGA-III run went through the stall checks of the stop decision after
\* generation 2 (generation_max is above 2) and ended later
C39_Witness ==
  /\ problem_mode = "NSGA_III"
  /\ generation_max >= 3
  /\ ~user_request_stop
  /\ pc = "done"
  /\ stop = "MaxGenerations"
  /\ generation_step = generation_max
  /\ Len(generations_so_abs) = generation_step + 1

\* the chromosomes selected so far: those of the admitted fronts and those
\* picked from the last front
AlreadySelected ==
  IF pc = "selected" THEN g2_chromosomes ELSE g2_chromosomes \o to_add_indices

\* the index (0-based) of the first front that does not fit
FirstFrontThatDoesNotFit == WholeFronts(new_generation, <<>>, 0)[2]

\* select_population_MO has returned for a combined generation of more than
\* population chromosomes
SelectionDone ==
  pc = "selected" /\ Len(new_generation.chromosomes) > population

\* g2 after the return: population indices, none twice, every member of the
\* fronts before the first that does not fit, the others from that front
FilledByFronts ==
  LET chosen == {g2_chromosomes[k] : k \in 1 .. Len(g2_chromosomes)}
      partial == FirstFrontThatDoesNotFit
  IN /\ Len(g2_chromosomes) = population
     /\ Cardinality(chosen) = population
     /\ chosen \subseteq 0 .. Len(new_generation.chromosomes) - 1
     /\ \A c \in 0 .. Len(new_generation.chromosomes) - 1 :
          /\ FrontOf(new_generation, c) < partial => c \in chosen
          /\ FrontOf(new_generation, c) > partial => c \notin chosen
     /\ g2_chromosomes \in select_population_MO(new_generation)

C33_WitnessRandomFill ==
  /\ SelectionDone
  /\ ~enable_reference_vectors
  /\ Len(to_add_indices) = 2

\* the number of already-selected chromosomes associated with reference
\* vector j (0-based)
SelectedAssociated(j) ==
  Cardinality({k \in 1 .. Len(AlreadySelected) :
                 associated_ref_vector[AlreadySelected[k] + 1] = j})

\* the niching loop is running
Niching == pc = "niching" /\ enable_reference_vectors

\* C34: during the niching, niche_count[j] is the number of already-selected
\* chromosomes (members of the admitted fronts and members picked from the
\* last front) associated with reference vector j, unless the entry was set
\* to the "infinity" value 10 * |generation|.
C34_NicheCountCountsSelected ==
  Niching =>
    \A j \in 0 .. Len(niche_count) - 1 :
      \/ niche_count[j + 1] = 10 * Len(new_generation.chromosomes)
      \/ niche_count[j + 1] = SelectedAssociated(j)

\* what niche_count holds: every chromosome of the combined generation
\* associated with j (selected or not), and once more each of them that was
\* picked from the last front
NicheCountCountsWholeGeneration ==
  Niching =>
    \A j \in 0 .. Len(niche_count) - 1 :
      \/ niche_count[j + 1] = 10 * Len(new_generation.chromosomes)
      \/ niche_count[j + 1] =
           Cardinality({i \in 1 .. Len(associated_ref_vector) : associated_ref_vector[i] = j})
           + Cardinality({k \in 1 .. Len(to_add_indices) :
                            associated_ref_vector[to_add_indices[k] + 1] = j})

\* the candidate set C of reference vector j
Candidates(j) == MinVecNeighbors(last_front_members, j)

\* the member of C closest to reference vector j, the first on ties
ClosestMember(C, j) ==
  C[CHOOSE k \in 1 .. Len(C) :
      /\ \A m \in 1 .. Len(C) : Distance(C[k], j) <= Distance(C[m], j)
      /\ \A m \in 1 .. k - 1 : Distance(C[m], j) > Distance(C[k], j)]

\* the first reference vector with the fewest already-selected chromosomes
\* among those that have a candidate in the last front
LeastCrowded ==
  CHOOSE j \in 0 .. Len(niche_count) - 1 :
    /\ Candidates(j) # <<>>
    /\ \A k \in 0 .. Len(niche_count) - 1 :
         Candidates(k) # <<>> =>
           \/ SelectedAssociated(j) < SelectedAssociated(k)
           \/ SelectedAssociated(j) = SelectedAssociated(k) /\ j <= k

\* an iteration of the niching loop adds a chromosome
AddsChromosome == Niching /\ Len(to_add_indices') = Len(to_add_indices) + 1

\* C35: when the least crowded reference vector has no already-selected
\* chromosome (niche count 0) and a non-empty candidate set C, the chromosome
\* added is the member of C with the smallest distance to it, the first on
\* ties.
C35_EmptyNicheTakesClosest ==
  [][(/\ AddsChromosome
      /\ last_front_members # <<>>
      /\ index_of_min(niche_count) = LeastCrowded
      /\ SelectedAssociated(LeastCrowded) = 0)
     => to_add_indices'[Len(to_add_indices')] =
          ClosestMember(Candidates(LeastCrowded), LeastCrowded)]_vars

\* the branch niche_count[min_niche_index] == 0 is never entered with a
\* neighbour: every neighbour was counted by associate_to_references
ClosestBranchNeverTaken ==
  Niching =>
    ~(/\ niche_count[index_of_min(niche_count) + 1] = 0
      /\ Candidates(index_of_min(niche_count)) # <<>>)

\* the niching picked from a reference vector without selected chromosomes
C35_Reached ==
  /\ Niching
  /\ to_add_indices # <<>>
  /\ SelectedAssociated(associated_ref_vector[to_add_indices[1] + 1]) = 1

=============================================================================
